---------------------------- MODULE Spec2Model ----------------------------
(***************************************************************************)
(* A model of galpy/df/streamgapdf.py: the DF of a gap in a tidal stream.  *)
(*                                                                         *)
(* The module holds nine specifications over one set of variables:        *)
(*   Spec       the constructor streamgapdf.__init__ as a step machine,    *)
(*              followed by later calls on the constructed object;         *)
(*   SpecCounts the same machine for the chunk and kick-point counts;      *)
(*   SpecInterp the range-checked kick interpolants and _sample_aAt;       *)
(*   SpecKick   the impulse kick calculators and HernquistX;               *)
(*   SpecDens   the approximate density / mean-frequency engine;           *)
(*   SpecQdf    the Gauss-Legendre order of quasiisothermaldf.pvR / pvz;   *)
(*   SpecTrack  the chunk solve of _determine_impact_coordtransform;       *)
(*   SpecPoly   the piecewise polynomial of the kick and the table of      *)
(*              Gaussian integrals;                                        *)
(*   SpecAlias  the borrowed names of _determine_deltaOmegaTheta_kick.     *)
(* A specification leaves the variables of the others at their idle       *)
(* values.                                                                 *)
(***************************************************************************)
EXTENDS Integers, Sequences, FiniteSets, TLC

VARIABLES
    \* ---- constructor (Spec)
    pc,              \* position inside __init__ / "done" / "raised"
    err,             \* the exception raised last ("none" when none)
    kw,              \* the keyword arguments __init__ was called with
    attrs,           \* names of the attributes written on self so far
    calls,           \* the routines run so far, in order
    _leading,        \* self._leading (written by the parent setup)
    _gap_leading,    \* self._gap_leading
    _general_kick,   \* self._general_kick
    _impact_angle,   \* self._impact_angle
    laterCalls,      \* number of calls made on the object after __init__
    lastCall,        \* the last such call and the length of calls before it
    values,            \* the values of the attributes whose value is followed
    \* ---- interpolated kicks and sampling (SpecInterp)
    gap,             \* the constructed object's fields read by the queries
    qry,             \* the last query: its input and what it returned
    \* ---- kick calculators (SpecKick)
    kck,             \* the last calculator call: its input and output
    \* ---- density engine (SpecDens)
    den,             \* the constructed object's kick spline and moments
    dqry,            \* the last density / meanOmega call
    \* ---- velocity distributions of the quasi-isothermal DF (SpecQdf)
    qdf,             \* the last pvR / pvz call or test: its input and outcome
    \* ---- the chunk solve of the impact track (SpecTrack)
    trk,             \* the locals of _determine_impact_coordtransform
    \* ---- the borrowed track names of the kick transform (SpecAlias)
    ali              \* the object's attributes and the invocations under way

ctorVars == <<pc, err, kw, attrs, calls, _leading, _gap_leading,
              _general_kick, _impact_angle, laterCalls, lastCall, values>>
interpVars == <<gap, qry>>
kickVars == <<kck>>
densVars == <<den, dqry>>
qdfVars == <<qdf>>
trkVars == <<trk>>
aliVars == <<ali>>
vars == <<ctorVars, interpVars, kickVars, densVars, qdfVars, trkVars, aliVars>>
notCtor == <<interpVars, kickVars, densVars, qdfVars, trkVars, aliVars>>
notInterp == <<ctorVars, kickVars, densVars, qdfVars, trkVars, aliVars>>
notKick == <<ctorVars, interpVars, densVars, qdfVars, trkVars, aliVars>>
notDens == <<ctorVars, interpVars, kickVars, qdfVars, trkVars, aliVars>>
notQdf == <<ctorVars, interpVars, kickVars, densVars, trkVars, aliVars>>
notTrk == <<ctorVars, interpVars, kickVars, densVars, qdfVars, aliVars>>
notAli == <<ctorVars, interpVars, kickVars, densVars, qdfVars, trkVars>>

Idle == [op |-> "idle"]

\* an optional argument: <<>> is None, <<x>> is x
Default(arg, default) == IF arg = <<>> THEN default ELSE arg[1]

\* The attributes whose value is followed, before any is written: a count or an
\* angle is 0, the closest-approach point is <<>>.  nbuilt counts the runs of
\* lines 832-912; an array or spline holds the number of the run that made it.
NoVals ==
    [_deltaAngleTrackImpact |-> 0, _nTrackChunksImpact |-> 0, _nKickPoints |-> 0,
     nbuilt |-> 0, _kick_interpolatedThetasTrack |-> 0, _kick_interpTrack |-> 0,
     _kick_interpolatedObsTrackXY |-> 0, _kick_interpolatedObsTrack |-> 0,
     _kick_ObsTrackXY_closest |-> <<>>, _kick_interpolatedObsTrackAA |-> 0]

CtorIdle ==
    /\ pc = "idle" /\ err = "none" /\ kw = Idle /\ attrs = {}
    /\ calls = <<>> /\ _leading = FALSE /\ _gap_leading = FALSE
    /\ _general_kick = FALSE /\ _impact_angle = 0 /\ laterCalls = 0
    /\ lastCall = Idle /\ values = NoVals
InterpIdle == gap = Idle /\ qry = Idle
KickIdle == kck = Idle
DensIdle == den = Idle /\ dqry = Idle
QdfIdle == qdf = Idle /\ trk = Idle /\ ali = Idle


(***************************************************************************)
(*                 THE CONSTRUCTOR  streamgapdf.__init__                   *)
(***************************************************************************)

\* Bound: calls made on the object after __init__ returned.
MaxLaterCalls == 2

\* The impact angles tried: negative, zero, positive (only the sign is read).
ImpactAngles == {-1, 0, 1}

Fabs(x) == IF x < 0 THEN -x ELSE x

\* Attributes the smooth-stream parent writes in its setup with nosetup=True
\* (streamdf.__init__), as far as streamgapdf reads them.
ParentAttrs ==
    {"_leading", "_tdisrupt", "_sigMeanOffset", "_sigMeanSign", "_sortedSigOEig",
     "_sigomatrixEig", "_sigomatrixEigsortIndx", "_dsigomeanProgDirection",
     "_progenitor", "_progenitor_Omega", "_progenitor_angle",
     "_progenitor_Omega_along_dOmega", "_meandO", "_aA", "_pot", "_multi"}

\* Attributes of the impact epoch written before the arm check.
ImpactEpochAttrs == {"_timpact", "_deltaAngleTrackImpact", "_gap_progenitor", "_gap_leading"}

\* Attributes _determine_impact_coordtransform writes after the arm check.
ImpactTrackAttrs ==
    {"_gap_sigMeanSign", "_nTrackChunksImpact", "_gap_trackts", "_gap_thetasTrack",
     "_gap_ObsTrack", "_gap_ObsTrackAA", "_gap_allAcfsTrack", "_gap_alljacsTrack",
     "_gap_allinvjacsTrack", "_gap_detdOdJps", "_gap_meandetdOdJp",
     "_gap_logmeandetdOdJp", "_gap_ObsTrackXY"}

\* Attributes of the track near the kick (_interpolate_stream_track_kick, _aA).
KickTrackAttrs ==
    {"_kick_interpolatedThetasTrack", "_kick_interpTrackX", "_kick_interpTrackY",
     "_kick_interpTrackZ", "_kick_interpTrackvX", "_kick_interpTrackvY",
     "_kick_interpTrackvZ", "_kick_interpolatedObsTrackXY",
     "_kick_interpolatedObsTrack"}
KickTrackAAAttrs == {"_kick_interpTrackAAdmeanOmegaOneD", "_kick_interpolatedObsTrackAA"}

\* Attributes _determine_deltaOmegaTheta_kick leaves on the object.
KickSplineAttrs ==
    {"_kick_dOap", "_kick_interpdOr_raw", "_kick_interpdOp_raw", "_kick_interpdOz_raw",
     "_kick_interpdar_raw", "_kick_interpdap_raw", "_kick_interpdaz_raw",
     "_kick_dOaparperp", "_kick_interpdOpar_raw", "_kick_interpdOperp0_raw",
     "_kick_interpdOperp1_raw", "_kick_interpdOpar_dapar", "_kick_interpdOpar_poly"}

\* Everything the kick setup writes.
KickAttrs ==
    {"_nKickPoints", "_impactb", "_subhalovel", "_impact_angle",
     "_kick_ObsTrackXY_closest", "_kick_deltav"}
        \cup KickTrackAttrs \cup KickTrackAAAttrs \cup KickSplineAttrs

KickCalculators ==
    {"impulse_deltav_general_curvedstream", "impulse_deltav_hernquist_curvedstream",
     "impulse_deltav_plummer_curvedstream"}

Kwargs ==
    [GM : {"None", "given"}, rs : {"None", "given"}, subhalopot : {"None", "given"},
     hernquist : BOOLEAN, leading : BOOLEAN, impact_angle : ImpactAngles,
     nokicksetup : BOOLEAN, nosetup : BOOLEAN,
     deltaAngleTrackImpact : {<<>>}, nTrackChunksImpact : {<<>>}, nKickPoints : {<<>>}]

\* Angles of the track are counted in units of 0.05 rad: 0.15 rad is 3 units.
\* deltaAngleTrackLim of lines 972-976, a value of the parent's setup.
DeltaAngleTrackLim == 20

\* The keyword arguments of a call that sets the chunk and kick-point counts.
CountKwargs ==
    [GM : {"given"}, rs : {"given"}, subhalopot : {"None"},
     hernquist : {FALSE}, leading : {TRUE}, impact_angle : {1},
     nokicksetup : BOOLEAN, nosetup : {FALSE},
     deltaAngleTrackImpact : {<<>>, <<1>>, <<8>>, <<9>>, <<11>>, <<12>>, <<31>>},
     nTrackChunksImpact : {<<>>, <<1>>, <<4>>, <<7>>},
     nKickPoints : {<<>>, <<1>>, <<100>>}]

InitCtor ==
    /\ pc = "df_init" /\ err = "none" /\ kw \in Kwargs /\ attrs = {}
    /\ calls = <<>> /\ _leading = FALSE /\ _gap_leading = FALSE
    /\ _general_kick = FALSE /\ _impact_angle = 0 /\ laterCalls = 0
    /\ lastCall = Idle /\ values = NoVals

Raise(e) == pc' = "raised" /\ err' = e

\* line 143: df.__init__ stores the unit scales
DfInit ==
    /\ pc = "df_init"
    /\ attrs' = attrs \cup {"_ro", "_vo"}
    /\ calls' = Append(calls, "df.__init__")
    /\ pc' = "check_perturber"
    /\ UNCHANGED <<err, kw, _leading, _gap_leading, _general_kick, _impact_angle,
                   laterCalls, lastCall, values, notCtor>>

\* CheckPerturber with `and` for `or` in line 172
CheckPerturber_m ==
    /\ pc = "check_perturber"
    /\ _general_kick' = (kw.GM = "None" /\ kw.rs = "None")
    /\ attrs' = attrs \cup {"_general_kick"}
    /\ IF _general_kick' /\ kw.subhalopot = "None"
         THEN Raise("OSError")
         ELSE pc' = "super_init" /\ err' = err
    /\ UNCHANGED <<kw, calls, _leading, _gap_leading, _impact_angle, laterCalls, lastCall, values, notCtor>>

\* lines 171-176: analytical (GM, rs) or general potential; neither is an error
CheckPerturber ==
    /\ pc = "check_perturber"
    /\ _general_kick' = (kw.GM = "None" \/ kw.rs = "None")
    /\ attrs' = attrs \cup {"_general_kick"}
    /\ IF _general_kick' /\ kw.subhalopot = "None"
         THEN Raise("OSError")
         ELSE pc' = "super_init" /\ err' = err
    /\ UNCHANGED <<kw, calls, _leading, _gap_leading, _impact_angle, laterCalls, lastCall, values, notCtor>>

\* lines 177-180: the regular streamdf setup, forced to nosetup=True
SuperInit ==
    /\ pc = "super_init"
    /\ attrs' = attrs \cup ParentAttrs
    /\ _leading' = kw.leading
    /\ calls' = Append(calls, "streamdf.__init__")
    /\ pc' = "nTrackIterations"
    /\ UNCHANGED <<err, kw, _gap_leading, _general_kick, _impact_angle, laterCalls, lastCall, values, notCtor>>

\* line 183
DetermineNTrackIterations ==
    /\ pc = "nTrackIterations"
    /\ attrs' = attrs \cup {"nTrackIterations"}
    /\ calls' = Append(calls, "_determine_nTrackIterations")
    /\ pc' = "deltaAngleTrackImpact"
    /\ UNCHANGED <<err, kw, _leading, _gap_leading, _general_kick, _impact_angle,
                   laterCalls, lastCall, values, notCtor>>

\* line 184, lines 970-986
DetermineDeltaAngleTrackImpact ==
    /\ pc = "deltaAngleTrackImpact"
    /\ attrs' = attrs \cup {"_timpact", "_deltaAngleTrackImpact"}
    /\ values' = [values EXCEPT !._deltaAngleTrackImpact =
                                   Default(kw.deltaAngleTrackImpact, DeltaAngleTrackLim)]
    /\ calls' = Append(calls, "_determine_deltaAngleTrackImpact")
    /\ pc' = "gap_progenitor_setup"
    /\ UNCHANGED <<err, kw, _leading, _gap_leading, _general_kick, _impact_angle,
                   laterCalls, lastCall, notCtor>>

\* line 993, lines 1232-1244: the progenitor is integrated backward to tdisrupt
GapProgenitorSetup ==
    /\ pc = "gap_progenitor_setup"
    /\ attrs' = attrs \cup {"_gap_progenitor"}
    /\ calls' = calls \o <<"_determine_impact_coordtransform", "_gap_progenitor_setup">>
    /\ pc' = "impact_side"
    /\ UNCHANGED <<err, kw, _leading, _gap_leading, _general_kick, _impact_angle,
                   laterCalls, lastCall, values, notCtor>>

\* GapLeading with >= for > in lines 996 and 642
GapLeading_m(impact_angle) == impact_angle >= 0

\* lines 996-999: the sign of the impact angle names the arm that is hit
GapLeading(impact_angle) == impact_angle > 0

\* lines 1000-1002 and 646-648: the arm hit is not the arm modelled
ArmMismatch(gapLeading, leading) ==
    (gapLeading /\ ~leading) \/ (~gapLeading /\ leading)

\* ImpactSideCheck moved below line 1014, after _gap_sigMeanSign is set
ImpactSideCheck_m ==
    /\ pc = "impact_side"
    /\ _gap_leading' = GapLeading(kw.impact_angle)
    /\ attrs' = attrs \cup {"_gap_leading", "_gap_sigMeanSign"}
    /\ IF ArmMismatch(_gap_leading', _leading)
         THEN Raise("ValueError")
         ELSE pc' = "impact_track" /\ err' = err
    /\ UNCHANGED <<kw, calls, _leading, _general_kick, _impact_angle, laterCalls, lastCall, values, notCtor>>

\* lines 994-1005: the arm check of _determine_impact_coordtransform
ImpactSideCheck ==
    /\ pc = "impact_side"
    /\ _gap_leading' = GapLeading(kw.impact_angle)
    /\ attrs' = attrs \cup {"_gap_leading"}
    /\ IF ArmMismatch(_gap_leading', _leading)
         THEN Raise("ValueError")
         ELSE pc' = "impact_track" /\ err' = err
    /\ UNCHANGED <<kw, calls, _leading, _general_kick, _impact_angle, laterCalls, lastCall, values, notCtor>>

\* NTrackChunksImpact raising a given count below 4 to 4 as well
NTrackChunksImpact_m(deltaAngleTrackImpact, nTrackChunksImpact) ==
    LET n == Default(nTrackChunksImpact, deltaAngleTrackImpact \div 3 + 1)
    IN  IF n >= 4 THEN n ELSE 4

\* lines 1016-1025: the number of chunks of the track near the impact
NTrackChunksImpact(deltaAngleTrackImpact, nTrackChunksImpact) ==
    IF nTrackChunksImpact = <<>>
      THEN LET n == deltaAngleTrackImpact \div 3 + 1
           IN  IF n >= 4 THEN n ELSE 4
      ELSE nTrackChunksImpact[1]

\* lines 1006-1230: the chunks are solved and the impact track is stored
ImpactTrackSolve ==
    /\ pc = "impact_track"
    /\ attrs' = attrs \cup ImpactTrackAttrs
    /\ values' = [values EXCEPT !._nTrackChunksImpact =
                     NTrackChunksImpact(values._deltaAngleTrackImpact, kw.nTrackChunksImpact)]
    /\ calls' = Append(calls, "_determine_stream_track_single")
    /\ pc' = "nKickPoints"
    /\ UNCHANGED <<err, kw, _leading, _gap_leading, _general_kick, _impact_angle,
                   laterCalls, lastCall, notCtor>>

\* SetNKickPoints without the return of lines 193-194
SetNKickPoints_m ==
    /\ pc = "nKickPoints"
    /\ attrs' = attrs \cup {"_nKickPoints"}
    /\ values' = [values EXCEPT !._nKickPoints =
                     Default(kw.nKickPoints, 30 * values._nTrackChunksImpact)]
    /\ pc' = "deltav_kick"
    /\ UNCHANGED <<err, kw, calls, _leading, _gap_leading, _general_kick, _impact_angle,
                   laterCalls, lastCall, notCtor>>

\* lines 188-194
SetNKickPoints ==
    /\ pc = "nKickPoints"
    /\ attrs' = attrs \cup {"_nKickPoints"}
    /\ values' = [values EXCEPT !._nKickPoints =
                     Default(kw.nKickPoints, 30 * values._nTrackChunksImpact)]
    /\ pc' = IF kw.nokicksetup THEN "done" ELSE "deltav_kick"
    /\ UNCHANGED <<err, kw, calls, _leading, _gap_leading, _general_kick, _impact_angle,
                   laterCalls, lastCall, notCtor>>

\* KickCalculator testing hernquist before self._general_kick
KickCalculator_m(generalKick, hernquist) ==
    IF hernquist THEN "impulse_deltav_hernquist_curvedstream"
    ELSE IF generalKick THEN "impulse_deltav_general_curvedstream"
    ELSE "impulse_deltav_plummer_curvedstream"

\* lines 657-671: which kick calculator is used
KickCalculator(generalKick, hernquist) ==
    IF generalKick THEN "impulse_deltav_general_curvedstream"
    ELSE IF hernquist THEN "impulse_deltav_hernquist_curvedstream"
    ELSE "impulse_deltav_plummer_curvedstream"

\* lines 827-831: the routines run by _interpolate_stream_track_kick
TrackCalls(have) ==
    IF "_kick_interpolatedThetasTrack" \in have
      THEN <<"_interpolate_stream_track_kick", "_store_closest">>
      ELSE <<"_interpolate_stream_track_kick", "build_kick_track", "_store_closest">>

\* lines 928-931: the routines run by _interpolate_stream_track_kick_aA
TrackAACalls(have) ==
    IF "_kick_interpolatedObsTrackAA" \in have
      THEN <<"_interpolate_stream_track_kick_aA">>
      ELSE <<"_interpolate_stream_track_kick_aA", "build_kick_track_aA">>

\* lines 827-831 and 928-931: the routines run by the two track builders
TrackKickCalls(have) == TrackCalls(have) \o TrackAACalls(have)

\* lines 832-912: the kick grid of _nKickPoints angles, the six coordinate
\* splines and the two interpolated track arrays are made
build_kick_track(v) ==
    [v EXCEPT !.nbuilt = v.nbuilt + 1,
              !._kick_interpolatedThetasTrack = v._nKickPoints,
              !._kick_interpTrack = v.nbuilt + 1,
              !._kick_interpolatedObsTrackXY = v.nbuilt + 1,
              !._kick_interpolatedObsTrack = v.nbuilt + 1]

\* lines 914-926: the six splines evaluated at self._impact_angle
_store_closest(v, impact_angle) ==
    [v EXCEPT !._kick_ObsTrackXY_closest = <<v._kick_interpTrack, impact_angle>>]

\* _interpolate_stream_track_kick without the test of line 829
_interpolate_stream_track_kick_m(v, have, impact_angle) ==
    _store_closest(build_kick_track(v), impact_angle)

\* lines 827-913: _interpolate_stream_track_kick() on an object that has the
\* attributes `have` and the impact angle impact_angle
_interpolate_stream_track_kick(v, have, impact_angle) ==
    IF "_kick_interpolatedThetasTrack" \in have
      THEN _store_closest(v, impact_angle)
      ELSE _store_closest(build_kick_track(v), impact_angle)

\* lines 928-968: _interpolate_stream_track_kick_aA(), the action-angle track
\* on the kick grid
_interpolate_stream_track_kick_aA(v, have) ==
    IF "_kick_interpolatedObsTrackAA" \in have
      THEN v
      ELSE [v EXCEPT !._kick_interpolatedObsTrackAA = v._kick_interpolatedThetasTrack]

\* lines 625-682: _determine_deltav_kick, entered from position `from` and
\* leaving at `to` when it returns
DetermineDeltavKick(impact_angle, hernquist, to) ==
    LET gl == GapLeading(impact_angle) IN
    /\ _gap_leading' = gl
    /\ IF ArmMismatch(gl, _leading)
         THEN /\ attrs' = attrs \cup {"_impactb", "_subhalovel", "_gap_leading"}
              /\ calls' = Append(calls, "_determine_deltav_kick")
              /\ _impact_angle' = _impact_angle
              /\ values' = values
              /\ err' = "ValueError"
              /\ pc' = IF pc = "done" THEN "done" ELSE "raised"
         ELSE /\ attrs' = attrs \cup {"_impactb", "_subhalovel", "_gap_leading",
                                      "_impact_angle", "_kick_ObsTrackXY_closest",
                                      "_kick_deltav"}
                                \cup KickTrackAttrs \cup KickTrackAAAttrs
              /\ calls' = calls \o <<"_determine_deltav_kick">> \o TrackKickCalls(attrs)
                                \o <<KickCalculator(_general_kick, hernquist)>>
              /\ _impact_angle' = Fabs(impact_angle)
              /\ values' = _interpolate_stream_track_kick_aA(
                              _interpolate_stream_track_kick(values, attrs, Fabs(impact_angle)),
                              attrs \cup KickTrackAttrs)
              /\ err' = "none"
              /\ pc' = to

\* lines 195-206
DeltavKick ==
    /\ pc = "deltav_kick"
    /\ DetermineDeltavKick(kw.impact_angle, kw.hernquist, "deltaOmegaTheta_kick")
    /\ UNCHANGED <<kw, _leading, _general_kick, laterCalls, lastCall, notCtor>>

\* line 207, lines 684-788
DeltaOmegaThetaKick ==
    /\ pc = "deltaOmegaTheta_kick"
    /\ attrs' = attrs \cup KickSplineAttrs
    /\ calls' = Append(calls, "_determine_deltaOmegaTheta_kick")
    /\ pc' = "stream_track"
    /\ UNCHANGED <<err, kw, _leading, _gap_leading, _general_kick, _impact_angle,
                   laterCalls, lastCall, values, notCtor>>

\* lines 208-217: the present-day track of the parent
StreamTrackSetup ==
    /\ pc = "stream_track"
    /\ attrs' = attrs \cup {"nInterpolatedTrackChunks", "_higherorderTrack", "_useInterp"}
    /\ calls' = Append(calls, "_determine_stream_track")
    /\ pc' = "done"
    /\ UNCHANGED <<err, kw, _leading, _gap_leading, _general_kick, _impact_angle,
                   laterCalls, lastCall, values, notCtor>>

\* a later call of _determine_deltav_kick on the constructed object, with an
\* impact angle that may have changed
LaterDeltavKick ==
    /\ pc = "done"
    /\ laterCalls < MaxLaterCalls
    /\ \E a \in ImpactAngles, h \in BOOLEAN :
         /\ DetermineDeltavKick(a, h, "done")
         /\ lastCall' = [op |-> "_determine_deltav_kick", impact_angle |-> a,
                         hernquist |-> h, ncalls |-> Len(calls)]
    /\ laterCalls' = laterCalls + 1
    /\ UNCHANGED <<kw, _leading, _general_kick, notCtor>>

\* a later call of _interpolate_stream_track_kick on the constructed object;
\* _store_closest reads self._impact_angle (line 918), which only
\* _determine_deltav_kick writes
LaterTrackKick ==
    /\ pc = "done"
    /\ laterCalls < MaxLaterCalls
    /\ calls' = calls \o TrackCalls(attrs)
    /\ IF "_impact_angle" \in attrs
         THEN /\ values' = _interpolate_stream_track_kick(values, attrs, _impact_angle)
              /\ attrs' = attrs \cup KickTrackAttrs \cup {"_kick_ObsTrackXY_closest"}
              /\ err' = "none"
         ELSE /\ values' = IF "_kick_interpolatedThetasTrack" \in attrs
                              THEN values ELSE build_kick_track(values)
              /\ attrs' = attrs \cup KickTrackAttrs
              /\ err' = "AttributeError"
    /\ lastCall' = [op |-> "_interpolate_stream_track_kick",
                    impact_angle |-> _impact_angle, ncalls |-> Len(calls)]
    /\ laterCalls' = laterCalls + 1
    /\ UNCHANGED <<pc, kw, _leading, _gap_leading, _general_kick, _impact_angle, notCtor>>

\* a later call of _interpolate_stream_track_kick_aA on the constructed
\* object; building reads self._kick_interpolatedThetasTrack (line 941)
LaterTrackKickAA ==
    /\ pc = "done"
    /\ laterCalls < MaxLaterCalls
    /\ IF "_kick_interpolatedObsTrackAA" \notin attrs
           /\ "_kick_interpolatedThetasTrack" \notin attrs
         THEN /\ calls' = Append(calls, "_interpolate_stream_track_kick_aA")
              /\ err' = "AttributeError"
              /\ UNCHANGED <<attrs, values>>
         ELSE /\ calls' = calls \o TrackAACalls(attrs)
              /\ values' = _interpolate_stream_track_kick_aA(values, attrs)
              /\ attrs' = attrs \cup KickTrackAAAttrs
              /\ err' = "none"
    /\ lastCall' = [op |-> "_interpolate_stream_track_kick_aA",
                    impact_angle |-> _impact_angle, ncalls |-> Len(calls)]
    /\ laterCalls' = laterCalls + 1
    /\ UNCHANGED <<pc, kw, _leading, _gap_leading, _general_kick, _impact_angle, notCtor>>

Next ==
    \/ DfInit \/ CheckPerturber \/ SuperInit \/ DetermineNTrackIterations
    \/ DetermineDeltaAngleTrackImpact \/ GapProgenitorSetup \/ ImpactSideCheck
    \/ ImpactTrackSolve \/ SetNKickPoints \/ DeltavKick \/ DeltaOmegaThetaKick
    \/ StreamTrackSetup \/ LaterDeltavKick \/ LaterTrackKick \/ LaterTrackKickAA

Init == InitCtor /\ InterpIdle /\ KickIdle /\ DensIdle /\ QdfIdle
Spec == Init /\ [][Next]_vars

\* the constructor called with the keyword arguments that set the counts
InitCounts ==
    /\ pc = "df_init" /\ err = "none" /\ kw \in CountKwargs /\ attrs = {}
    /\ calls = <<>> /\ _leading = FALSE /\ _gap_leading = FALSE
    /\ _general_kick = FALSE /\ _impact_angle = 0 /\ laterCalls = 0
    /\ lastCall = Idle /\ values = NoVals
    /\ InterpIdle /\ KickIdle /\ DensIdle /\ QdfIdle
SpecCounts == InitCounts /\ [][Next]_vars


(***************************************************************************)
(*                      Claims about the constructor                       *)
(***************************************************************************)

Range(seq) == {seq[i] : i \in 1..Len(seq)}

\* The impact angle names another arm than the one declared, in the claim's
\* words: angle > 0 with leading=False, or angle <= 0 with leading=True.
C2_Inconsistent(angle, leading) == (angle > 0 /\ ~leading) \/ (angle <= 0 /\ leading)

\* Positions of __init__ that follow the arm check of the coordinate transform.
C2_PastCheck ==
    {"impact_track", "nKickPoints", "deltav_kick", "deltaOmegaTheta_kick",
     "stream_track", "done"}

\* A later _determine_deltav_kick with an inconsistent angle raises ValueError
\* and runs nothing else: no track builder, no kick calculator.
C2_LaterCallRaises ==
    (lastCall.op = "_determine_deltav_kick"
        /\ C2_Inconsistent(lastCall.impact_angle, _leading))
    => /\ err = "ValueError"
       /\ SubSeq(calls, lastCall.ncalls + 1, Len(calls)) = <<"_determine_deltav_kick">>

\* C2 as stated: a constructor call whose impact_angle sign is inconsistent with
\* the declared arm never gets past the arm check, computes no kick, and the
\* error it ends with is always ValueError; a later _determine_deltav_kick with
\* an inconsistent angle raises too.
C2_Original ==
    /\ C2_Inconsistent(kw.impact_angle, kw.leading)
         => /\ pc \notin C2_PastCheck
            /\ "_kick_deltav" \notin attrs
            /\ Range(calls) \cap KickCalculators = {}
            /\ pc = "raised" => err = "ValueError"
    /\ C2_LaterCallRaises

\* C2 amended: as C2, but the error is the OSError of the perturber check when
\* neither (GM and rs) nor subhalopot is given, since that check comes first,
\* and ValueError in every other case.
C2_Amended ==
    /\ C2_Inconsistent(kw.impact_angle, kw.leading)
         => /\ pc \notin C2_PastCheck
            /\ "_kick_deltav" \notin attrs
            /\ Range(calls) \cap KickCalculators = {}
            /\ pc = "raised" =>
                 err = IF (kw.GM = "None" \/ kw.rs = "None") /\ kw.subhalopot = "None"
                         THEN "OSError" ELSE "ValueError"
    /\ C2_LaterCallRaises

\* An impact angle of exactly 0 with leading=True has raised ValueError.
C2_Witness ==
    /\ pc = "raised" /\ err = "ValueError"
    /\ kw.impact_angle = 0 /\ kw.leading

\* C3: with neither both of GM and rs nor subhalopot, construction fails with
\* an error, raised before the parent setup runs and before any impact
\* coordinate-transform or kick attribute is written.
C3_FailsBeforeSetup ==
    /\ ((kw.GM = "None" \/ kw.rs = "None") /\ kw.subhalopot = "None")
         => \/ pc \in {"df_init", "check_perturber"}
            \/ pc = "raised" /\ err = "OSError"
    /\ (pc = "raised" /\ err = "OSError")
         => /\ "streamdf.__init__" \notin Range(calls)
            /\ attrs \cap (ParentAttrs \cup ImpactEpochAttrs \cup ImpactTrackAttrs
                            \cup KickAttrs) = {}

\* GM is given but rs is not, no subhalopot: the constructor has raised.
C3_Witness ==
    /\ pc = "raised" /\ err = "OSError"
    /\ kw.GM = "given" /\ kw.rs = "None" /\ kw.subhalopot = "None"

\* The impact-epoch attributes the claim names.
C4_ImpactEpochState == {"_timpact", "_deltaAngleTrackImpact", "_gap_progenitor", "_gap_leading"}

\* C4 as stated: when the constructor raises for an inconsistent impact side, no
\* impact-epoch attribute has been written and the progenitor has not been
\* integrated backward.
C4_Original ==
    (pc = "raised" /\ err = "ValueError")
    => /\ attrs \cap C4_ImpactEpochState = {}
       /\ "_gap_progenitor_setup" \notin Range(calls)

\* C4 amended: when the constructor raises for an inconsistent impact side,
\* _timpact, _deltaAngleTrackImpact, _gap_progenitor and _gap_leading have been
\* written and the progenitor has been integrated backward, and nothing that
\* follows the check has happened: no chunk is solved, no impact track, no
\* _nKickPoints and no kick attribute is written.
C4_Amended ==
    (pc = "raised" /\ err = "ValueError")
    => /\ C4_ImpactEpochState \subseteq attrs
       /\ "_gap_progenitor_setup" \in Range(calls)
       /\ attrs \cap (ImpactTrackAttrs \cup KickAttrs) = {}
       /\ "_determine_stream_track_single" \notin Range(calls)
       /\ Range(calls) \cap KickCalculators = {}

\* The constructor has raised for an impact on the leading arm of a trailing model.
C4_Witness ==
    /\ pc = "raised" /\ err = "ValueError"
    /\ kw.impact_angle > 0 /\ ~kw.leading

\* The routines of the constructor that set up the stream track and the other
\* expensive parts: the impact coordinate transform, the kick computation and
\* the present-day track.
C14_Expensive ==
    {"_determine_impact_coordtransform", "_determine_stream_track_single",
     "_determine_deltav_kick", "_determine_deltaOmegaTheta_kick",
     "_determine_stream_track"} \cup KickCalculators

\* C14 as stated: if nosetup=True is passed to the constructor, the stream
\* track and everything else that is expensive (impact coordinate transform,
\* kick computation, present-day track determination and interpolation) is not
\* set up: the constructor runs none of these routines and writes none of
\* their attributes.
C14_Original ==
    (kw.nosetup /\ laterCalls = 0)
    => /\ Range(calls) \cap C14_Expensive = {}
       /\ attrs \cap (ImpactTrackAttrs \cup KickAttrs \cup {"_useInterp"}) = {}

\* The steps of the constructor from the coordinate transform on, in the order
\* the claim gives them.
C15_Order ==
    <<"_determine_impact_coordtransform", "_determine_deltav_kick",
      "_determine_deltaOmegaTheta_kick", "_determine_stream_track">>
C15_IsStep(c) == c \in Range(C15_Order)

\* C15: with nokicksetup=True the constructor runs only as far as the impact
\* coordinate transformation: when it returns, _determine_impact_coordtransform
\* has completed and _nKickPoints is set, while no velocity kick, no
\* frequency/angle kick spline or breakpoint representation and no present-day
\* track has been computed; with nokicksetup=False the steps run in the fixed
\* order coordinate transform -> velocity kick -> kick splines -> present-day
\* track.
C15_NoKickSetup ==
    laterCalls = 0 =>
        /\ (kw.nokicksetup /\ pc = "done")
             => /\ SelectSeq(calls, C15_IsStep) = <<"_determine_impact_coordtransform">>
                /\ "_determine_stream_track_single" \in Range(calls)
                /\ ImpactTrackAttrs \cup {"_nKickPoints"} \subseteq attrs
                /\ attrs \cap (KickAttrs \ {"_nKickPoints"}) = {}
                /\ Range(calls) \cap KickCalculators = {}
                /\ attrs \cap {"nInterpolatedTrackChunks", "_higherorderTrack", "_useInterp"} = {}
        /\ kw.nokicksetup => pc \notin {"deltav_kick", "deltaOmegaTheta_kick", "stream_track"}
        /\ ~kw.nokicksetup
             => /\ SelectSeq(calls, C15_IsStep)
                     = SubSeq(C15_Order, 1, Len(SelectSeq(calls, C15_IsStep)))
                /\ pc = "done" => SelectSeq(calls, C15_IsStep) = C15_Order

\* The constructor has returned from a call with nokicksetup=True.
C15_Witness ==
    /\ pc = "done" /\ kw.nokicksetup /\ laterCalls = 0
    /\ "_nKickPoints" \in attrs /\ "_gap_ObsTrack" \in attrs

\* The calculator the claim selects for a perturber given by GM, rs and the
\* hernquist flag, whether or not subhalopot is given as well.
C17_Expected(GM, rs, hernquist) ==
    IF GM = "None" \/ rs = "None" THEN "impulse_deltav_general_curvedstream"
    ELSE IF hernquist THEN "impulse_deltav_hernquist_curvedstream"
    ELSE "impulse_deltav_plummer_curvedstream"

C17_IsCalculator(c) == c \in KickCalculators
C17_IsDeltavKick(c) == c = "_determine_deltav_kick"

\* the kick calculators invoked by the last call made on the object
C17_LastCalculators ==
    SelectSeq(SubSeq(calls, lastCall.ncalls + 1, Len(calls)), C17_IsCalculator)

\* the constructor's own call of _determine_deltav_kick invokes exactly the
\* calculator the claim selects
C17_Constructor ==
    laterCalls = 0
    => /\ SelectSeq(calls, C17_IsCalculator)
            = [i \in 1..Len(SelectSeq(calls, C17_IsDeltavKick)) |->
                  C17_Expected(kw.GM, kw.rs, kw.hernquist)]
       /\ pc = "done" /\ ~kw.nokicksetup => Len(SelectSeq(calls, C17_IsCalculator)) = 1

\* C17 as stated: the general curved-stream kick is used if and only if GM or
\* rs is missing; with both the analytic kick is used whether or not subhalopot
\* is given, Hernquist when hernquist=True and Plummer otherwise; exactly one
\* kick calculator is invoked per _determine_deltav_kick call.
C17_Original ==
    /\ C17_Constructor
    /\ lastCall.op = "_determine_deltav_kick"
         => C17_LastCalculators = <<C17_Expected(kw.GM, kw.rs, lastCall.hernquist)>>

\* C17 amended: as C17, with exactly one kick calculator invoked per
\* _determine_deltav_kick call that passes the arm check; a call that raises
\* ValueError for an impact on the other arm invokes none.
C17_Amended ==
    /\ C17_Constructor
    /\ lastCall.op = "_determine_deltav_kick"
         => C17_LastCalculators =
               IF ArmMismatch(lastCall.impact_angle > 0, _leading)
                 THEN <<>>
                 ELSE <<C17_Expected(kw.GM, kw.rs, lastCall.hernquist)>>

\* GM, rs and subhalopot are all given with hernquist=True and the Hernquist
\* calculator has been invoked; a later call on the other arm has invoked none.
C17_Witness ==
    /\ kw.GM = "given" /\ kw.rs = "given" /\ kw.subhalopot = "given" /\ kw.hernquist
    /\ "impulse_deltav_hernquist_curvedstream" \in Range(calls)
    /\ lastCall.op = "_determine_deltav_kick"
    /\ ArmMismatch(lastCall.impact_angle > 0, _leading)
    /\ C17_LastCalculators = <<>>

\* floor(a / 0.15) for an angle a >= 0 counted in units of 0.05 rad: the
\* largest integer f with 3 * f <= a
C18_Floor(a) == CHOOSE f \in 0..a : 3 * f <= a /\ a < 3 * (f + 1)

C18_Max(a, b) == IF a >= b THEN a ELSE b

C20_NewCalls == SubSeq(calls', Len(calls) + 1, Len(calls'))

\* the kick angle grid, the six coordinate splines and both interpolated track
\* arrays are left as they are
C20_TrackUnchanged ==
    /\ values'._kick_interpolatedThetasTrack = values._kick_interpolatedThetasTrack
    /\ values'._kick_interpTrack = values._kick_interpTrack
    /\ values'._kick_interpolatedObsTrackXY = values._kick_interpolatedObsTrackXY
    /\ values'._kick_interpolatedObsTrack = values._kick_interpolatedObsTrack
    /\ values'.nbuilt = values.nbuilt
    /\ KickTrackAttrs \subseteq attrs'

\* C20: after a first call of _interpolate_stream_track_kick, any later call,
\* whatever calls were made and however _impact_angle changed in between,
\* leaves the kick angle grid, the six coordinate splines and both
\* interpolated track arrays unchanged and only recomputes
\* _kick_ObsTrackXY_closest by evaluating the existing splines at the current
\* _impact_angle; a second call of _interpolate_stream_track_kick_aA changes
\* nothing.
C20_Idempotent ==
    [][/\ "_kick_interpolatedThetasTrack" \in attrs
            => /\ C20_TrackUnchanged
               /\ ("_store_closest" \in Range(C20_NewCalls) /\ "_impact_angle" \in attrs')
                    => /\ "build_kick_track" \notin Range(C20_NewCalls)
                       /\ values'._kick_ObsTrackXY_closest
                            = <<values._kick_interpTrack, _impact_angle'>>
       /\ "_kick_interpolatedObsTrackAA" \in attrs
            => /\ values'._kick_interpolatedObsTrackAA = values._kick_interpolatedObsTrackAA
               /\ "build_kick_track_aA" \notin Range(C20_NewCalls)
               /\ lastCall'.op = "_interpolate_stream_track_kick_aA"
                    => attrs' = attrs /\ values' = values
      ]_vars

\* The track near the impact was built once, by the constructor; a later call
\* with another impact angle has found it and has evaluated its splines at the
\* new angle.
C20_Witness ==
    /\ ~kw.nokicksetup /\ lastCall.op = "_determine_deltav_kick" /\ err = "none"
    /\ _impact_angle # Fabs(kw.impact_angle)
    /\ values.nbuilt = 1
    /\ values._kick_ObsTrackXY_closest = <<1, _impact_angle>>
    /\ SubSeq(calls, lastCall.ncalls + 1, lastCall.ncalls + 3)
         = <<"_determine_deltav_kick", "_interpolate_stream_track_kick", "_store_closest">>


(***************************************************************************)
(*        THE RANGE-CHECKED KICK INTERPOLANTS AND  _sample_aAt             *)
(*                                                                         *)
(* Angles, frequencies and times are integers (multiples of a grid step).  *)
(* A raw kick spline is an arbitrary function of the angle; here each is   *)
(* the polynomial c0 + c1*da with the coefficients drawn in InitInterp.    *)
(***************************************************************************)

\* Bounds: the largest angle queried, the longest array queried, the largest
\* number of samples drawn.
MaxAngle == 4
MaxLen == 2
MaxN == 2

Angles == -1..MaxAngle

\* The nine interpolated kick queries, lines 790-825.
KickFns ==
    {"_kick_interpdOpar", "_kick_interpdOperp0", "_kick_interpdOperp1",
     "_kick_interpdOr", "_kick_interpdOp", "_kick_interpdOz",
     "_kick_interpdar", "_kick_interpdap", "_kick_interpdaz"}

FnIndex(fn) ==
    CASE fn = "_kick_interpdOpar" -> 1 [] fn = "_kick_interpdOperp0" -> 2
      [] fn = "_kick_interpdOperp1" -> 3 [] fn = "_kick_interpdOr" -> 4
      [] fn = "_kick_interpdOp" -> 5 [] fn = "_kick_interpdOz" -> 6
      [] fn = "_kick_interpdar" -> 7 [] fn = "_kick_interpdap" -> 8
      [] fn = "_kick_interpdaz" -> 9

\* The coefficient tables the raw splines are drawn from.
RawTables ==
    { [fn \in KickFns |-> <<FnIndex(fn), 1>>],
      [fn \in KickFns |-> <<0 - FnIndex(fn), 2>>] }

Dot3(a, b) == a[1] * b[1] + a[2] * b[2] + a[3] * b[3]

\* The fields of a constructed object that the queries read.
GapObjects ==
    [op : {"object"},
     _deltaAngleTrackImpact : 2..(MaxAngle - 1),
     _timpact : {1, 2},
     _gap_sigMeanSign : {-1, 1},
     _dsigomeanProgDirection : {<<1, 0, 0>>, <<1, 1, 0>>},
     _progenitor_angle : {<<1, 0, 0>>},
     _progenitor_Omega : {<<1, 1, 0>>},
     raw : RawTables]

InitInterp ==
    /\ gap \in GapObjects /\ qry = Idle
    /\ CtorIdle /\ KickIdle /\ DensIdle /\ QdfIdle

\* self._kick_interpdXX_raw(da) for one angle
RawSpline(fn, a) == gap.raw[fn][1] + gap.raw[fn][2] * a

\* lines 792-825: the undecorated method, a spline evaluated on a scalar or
\* element by element on an array
RawCall(fn, da) ==
    IF da.nd THEN [i \in 1..Len(da.v) |-> RawSpline(fn, da.v[i])]
    ELSE RawSpline(fn, da.v)

\* a[mask] of numpy: the elements at the True positions, in order
Take(a, mask) ==
    LET idx == {i \in 1..Len(a) : mask[i]}
    IN  [k \in 1..Cardinality(idx) |->
            a[CHOOSE i \in idx : Cardinality({j \in idx : j <= i}) = k]]

\* out[mask] = vals of numpy
Put(out, mask, vals) ==
    LET idx == {i \in 1..Len(out) : mask[i]}
    IN  [i \in 1..Len(out) |->
            IF mask[i] THEN vals[Cardinality({j \in idx : j <= i})] ELSE out[i]]

Zeros(n) == [i \in 1..n |-> 0]

\* impact_wrapper with <= for < in line 27 and > for >= in line 30
impact_wrapper_m(fn, da) ==
    IF da.nd
      THEN LET out == Zeros(Len(da.v))
               goodIndx == [i \in 1..Len(da.v) |->
                               (da.v[i] <= gap._deltaAngleTrackImpact) /\ (da.v[i] > 0)]
           IN  Put(out, goodIndx, RawCall(fn, [nd |-> TRUE, v |-> Take(da.v, goodIndx)]))
      ELSE IF da.v > gap._deltaAngleTrackImpact \/ da.v <= 0
             THEN 0
             ELSE RawCall(fn, da)

\* lines 20-35: impact_check_range's impact_wrapper around the method fn
impact_wrapper(fn, da) ==
    IF da.nd
      THEN LET out == Zeros(Len(da.v))
               goodIndx == [i \in 1..Len(da.v) |->
                               (da.v[i] < gap._deltaAngleTrackImpact) /\ (da.v[i] > 0)]
           IN  Put(out, goodIndx, RawCall(fn, [nd |-> TRUE, v |-> Take(da.v, goodIndx)]))
      ELSE IF da.v >= gap._deltaAngleTrackImpact \/ da.v <= 0
             THEN 0
             ELSE RawCall(fn, da)

SeqsUpTo(S, n) == UNION {[1..k -> S] : k \in 0..n}

\* one of the nine queries, called with a scalar
KickInterpScalar ==
    /\ gap.op = "object" /\ qry.op = "idle"
    /\ \E fn \in KickFns, a \in Angles :
         LET da == [nd |-> FALSE, v |-> a]
         IN  qry' = [op |-> "kick_interp", fn |-> fn, da |-> da,
                     out |-> impact_wrapper(fn, da)]
    /\ UNCHANGED <<gap, notInterp>>

\* one of the nine queries, called with a numpy array
KickInterpArray ==
    /\ gap.op = "object" /\ qry.op = "idle"
    /\ \E fn \in KickFns, a \in SeqsUpTo(Angles, MaxLen) :
         LET da == [nd |-> TRUE, v |-> a]
         IN  qry' = [op |-> "kick_interp", fn |-> fn, da |-> da,
                     out |-> impact_wrapper(fn, da)]
    /\ UNCHANGED <<gap, notInterp>>

\* What the unperturbed sampler streamdf._sample_aAt may draw for one sample:
\* a frequency vector, an angle vector and a release time.
SampleOms == {<<1, 1, 0>>, <<2, 1, 0>>}
SampleAngles == {<<1, 0, 0>>, <<4, 1, 0>>, <<7, 2, 1>>}
SampleDts == {1, 2}

\* row c of a (3,n) array held as a sequence of n 3-vectors
Row(a, c) == [i \in 1..Len(a) |-> a[i][c]]

\* DangleParAtImpact without the rewind by timpact of line 1256
DangleParAtImpact_m(Om, angle) ==
    [i \in 1..Len(Om[1]) |->
        Dot3([c \in 1..3 |-> angle[c][i] - gap._progenitor_angle[c]],
             gap._dsigomeanProgDirection) * gap._gap_sigMeanSign]

\* lines 1253-1261: the parallel angle offset of every sample at the impact
DangleParAtImpact(Om, angle) ==
    [i \in 1..Len(Om[1]) |->
        Dot3([c \in 1..3 |->
                 angle[c][i] - gap._progenitor_angle[c]
                   - (Om[c][i] - gap._progenitor_Omega[c]) * gap._timpact],
             gap._dsigomeanProgDirection) * gap._gap_sigMeanSign]

AddSeq(a, b) == [i \in 1..Len(a) |-> a[i] + b[i]]
ScaleSeq(a, k) == [i \in 1..Len(a) |-> a[i] * k]

\* _sample_aAt calling the raw splines in lines 1263-1271
sample_aAt_m(Om, angle, dt) ==
    LET da == [nd |-> TRUE, v |-> DangleParAtImpact(Om, angle)]
        dOr == RawCall("_kick_interpdOr", da)
        dOp == RawCall("_kick_interpdOp", da)
        dOz == RawCall("_kick_interpdOz", da)
    IN  [Om |-> <<AddSeq(Om[1], dOr), AddSeq(Om[2], dOp), AddSeq(Om[3], dOz)>>,
         angle |->
           <<AddSeq(angle[1], AddSeq(RawCall("_kick_interpdar", da),
                                     ScaleSeq(dOr, gap._timpact))),
             AddSeq(angle[2], AddSeq(RawCall("_kick_interpdap", da),
                                     ScaleSeq(dOp, gap._timpact))),
             AddSeq(angle[3], AddSeq(RawCall("_kick_interpdaz", da),
                                     ScaleSeq(dOz, gap._timpact)))>>,
         dt |-> dt]

\* lines 1252-1272: what _sample_aAt returns for the unperturbed (Om, angle, dt),
\* each of Om and angle a (3,n) array held as three rows
sample_aAt(Om, angle, dt) ==
    LET da == [nd |-> TRUE, v |-> DangleParAtImpact(Om, angle)]
        dOr == impact_wrapper("_kick_interpdOr", da)
        dOp == impact_wrapper("_kick_interpdOp", da)
        dOz == impact_wrapper("_kick_interpdOz", da)
    IN  [Om |-> <<AddSeq(Om[1], dOr), AddSeq(Om[2], dOp), AddSeq(Om[3], dOz)>>,
         angle |->
           <<AddSeq(angle[1], AddSeq(impact_wrapper("_kick_interpdar", da),
                                     ScaleSeq(dOr, gap._timpact))),
             AddSeq(angle[2], AddSeq(impact_wrapper("_kick_interpdap", da),
                                     ScaleSeq(dOp, gap._timpact))),
             AddSeq(angle[3], AddSeq(impact_wrapper("_kick_interpdaz", da),
                                     ScaleSeq(dOz, gap._timpact)))>>,
         dt |-> dt]

\* lines 1247-1272: _sample_aAt(n)
SampleAAt ==
    /\ gap.op = "object" /\ qry.op = "idle"
    /\ \E n \in 1..MaxN :
         \E oms \in [1..n -> SampleOms], angs \in [1..n -> SampleAngles],
            dts \in [1..n -> SampleDts] :
           LET Om == <<Row(oms, 1), Row(oms, 2), Row(oms, 3)>>
               angle == <<Row(angs, 1), Row(angs, 2), Row(angs, 3)>>
           IN  qry' = [op |-> "_sample_aAt", n |-> n,
                       Om |-> Om, angle |-> angle, dt |-> dts,
                       dangle_par_at_impact |-> DangleParAtImpact(Om, angle),
                       out |-> sample_aAt(Om, angle, dts)]
    /\ UNCHANGED <<gap, notInterp>>

\* the query has returned to its caller; the object is ready for the next one
InterpReturn ==
    /\ qry.op # "idle"
    /\ qry' = Idle
    /\ UNCHANGED <<gap, notInterp>>

NextInterp == KickInterpScalar \/ KickInterpArray \/ SampleAAt \/ InterpReturn

SpecInterp == InitInterp /\ [][NextInterp]_vars

(***************************************************************************)
(*             Claims about the interpolants and the sampling              *)
(***************************************************************************)

\* The value the claim gives a query at angle a: 0 outside the open interval
\* (0, _deltaAngleTrackImpact), the raw spline inside.
C1_Expected(fn, a) ==
    IF a <= 0 \/ a >= gap._deltaAngleTrackImpact THEN 0 ELSE RawSpline(fn, a)

\* C1: each of the nine range-checked queries returns exactly 0 for an angle
\* a <= 0 or a >= _deltaAngleTrackImpact and the raw spline at a otherwise,
\* for a scalar and for every element of an array; an array result is as long
\* as the input and its element i is decided by input element i alone.
C1_RangeCheck ==
    qry.op = "kick_interp"
    => IF qry.da.nd
         THEN /\ Len(qry.out) = Len(qry.da.v)
              /\ \A i \in 1..Len(qry.da.v) : qry.out[i] = C1_Expected(qry.fn, qry.da.v[i])
         ELSE qry.out = C1_Expected(qry.fn, qry.da.v)

\* An array query whose first element is at the end of the track and whose
\* second lies inside, where the raw spline is not 0.
C1_Witness ==
    /\ qry.op = "kick_interp" /\ qry.da.nd /\ Len(qry.da.v) = 2
    /\ qry.da.v[1] = gap._deltaAngleTrackImpact
    /\ qry.da.v[2] > 0 /\ qry.da.v[2] < gap._deltaAngleTrackImpact
    /\ qry.out[1] = 0 /\ qry.out[2] # 0
    /\ RawSpline(qry.fn, qry.da.v[1]) # 0

\* C10: a sample whose parallel angle offset at the impact is <= 0 or
\* >= _deltaAngleTrackImpact is returned with the frequencies and angles the
\* unperturbed sampler drew; dt and the number of samples are returned
\* unchanged for every sample.
C10_NoKickOutside ==
    qry.op = "_sample_aAt"
    => /\ qry.out.dt = qry.dt
       /\ Len(qry.out.dt) = qry.n
       /\ \A c \in 1..3 : Len(qry.out.Om[c]) = qry.n /\ Len(qry.out.angle[c]) = qry.n
       /\ \A i \in 1..qry.n :
            (qry.dangle_par_at_impact[i] <= 0
                \/ qry.dangle_par_at_impact[i] >= gap._deltaAngleTrackImpact)
            => \A c \in 1..3 : /\ qry.out.Om[c][i] = qry.Om[c][i]
                               /\ qry.out.angle[c][i] = qry.angle[c][i]

\* Two samples: one not yet released at the impact (offset <= 0) and returned
\* as drawn, one inside the track and kicked.
C10_Witness ==
    /\ qry.op = "_sample_aAt" /\ qry.n = 2
    /\ \E i, j \in 1..2 :
         /\ qry.dangle_par_at_impact[i] <= 0
         /\ RawSpline("_kick_interpdOr", qry.dangle_par_at_impact[i]) # 0
         /\ qry.out.Om[1][i] = qry.Om[1][i]
         /\ qry.dangle_par_at_impact[j] > 0
         /\ qry.dangle_par_at_impact[j] < gap._deltaAngleTrackImpact
         /\ qry.out.Om[1][j] # qry.Om[1][j]

\* the parallel angle offset of sample i at the impact, from the frequency and
\* angle as drawn (before any kick)
C11_A(i) ==
    ((qry.angle[1][i] - gap._progenitor_angle[1]
         - (qry.Om[1][i] - gap._progenitor_Omega[1]) * gap._timpact)
            * gap._dsigomeanProgDirection[1]
     + (qry.angle[2][i] - gap._progenitor_angle[2]
         - (qry.Om[2][i] - gap._progenitor_Omega[2]) * gap._timpact)
            * gap._dsigomeanProgDirection[2]
     + (qry.angle[3][i] - gap._progenitor_angle[3]
         - (qry.Om[3][i] - gap._progenitor_Omega[3]) * gap._timpact)
            * gap._dsigomeanProgDirection[3])
    * gap._gap_sigMeanSign

\* the frequency and the angle kick spline of component c (r, phi, z)
C11_dO(c) == <<"_kick_interpdOr", "_kick_interpdOp", "_kick_interpdOz">>[c]
C11_da(c) == <<"_kick_interpdar", "_kick_interpdap", "_kick_interpdaz">>[c]

\* C11: for every sample whose parallel angle offset a at the impact, computed
\* from the frequency and angle as drawn, lies strictly inside
\* (0, _deltaAngleTrackImpact), each frequency component is increased by the
\* interpolated frequency kick dO_i(a) and the angle component by the
\* interpolated angle kick da_i(a) plus dO_i(a) * timpact.
C11_KickApplied ==
    qry.op = "_sample_aAt"
    => \A i \in 1..qry.n :
         (C11_A(i) > 0 /\ C11_A(i) < gap._deltaAngleTrackImpact)
         => \A c \in 1..3 :
              /\ qry.out.Om[c][i] = qry.Om[c][i] + RawSpline(C11_dO(c), C11_A(i))
              /\ qry.out.angle[c][i] =
                    qry.angle[c][i] + RawSpline(C11_da(c), C11_A(i))
                      + RawSpline(C11_dO(c), C11_A(i)) * gap._timpact

\* A sample inside the track whose offset at the impact differs from its offset
\* now, and whose frequency and angle kicks are not 0.
C11_Witness ==
    /\ qry.op = "_sample_aAt"
    /\ \E i \in 1..qry.n :
         /\ C11_A(i) > 0 /\ C11_A(i) < gap._deltaAngleTrackImpact
         /\ C11_A(i) # Dot3(<<qry.angle[1][i] - gap._progenitor_angle[1],
                              qry.angle[2][i] - gap._progenitor_angle[2],
                              qry.angle[3][i] - gap._progenitor_angle[3]>>,
                            gap._dsigomeanProgDirection) * gap._gap_sigMeanSign
         /\ qry.out.Om[1][i] # qry.Om[1][i]
         /\ qry.out.angle[1][i] # qry.angle[1][i] + RawSpline("_kick_interpdar", C11_A(i))

(***************************************************************************)
(*            THE IMPULSE KICK CALCULATORS AND  HernquistX                 *)
(*                                                                         *)
(* A float is held exactly: a rational n/d in lowest terms, NaN, +inf or   *)
(* -inf, with the IEEE rules numpy follows for the special values (x/0 is  *)
(* +-inf, 0/0 and inf*0 and inf-inf are NaN, a comparison with NaN is      *)
(* false; numpy warns and does not raise).  Every divisor the calculators  *)
(* form is a sum or product of non-negative terms or a difference x - x,   *)
(* so a zero divisor is always +0 and the sign of a zero is not kept.      *)
(* The inputs are drawn so that every square root taken is the root of a   *)
(* perfect square; a root that is not is the value Irrational.             *)
(*                                                                         *)
(* The one transcendental quantity, Xfac of impulse_deltav_hernquist for   *)
(* an argument s that is neither 0 nor 1, is kept as a named factor: the   *)
(* field x of a number is <<Bn, Bd, rs>> when the number is n/d times      *)
(* Xfac(B = Bn/Bd, rs), and NoX when it is plain.  Xfac is finite and not  *)
(* zero there, negative for B < rs and positive for B > rs.                *)
(***************************************************************************)

NoX == <<0, 0, 0>>

RECURSIVE Gcd(_, _)
Gcd(a, b) == IF b = 0 THEN a ELSE Gcd(b, a % b)

IAbs(n) == IF n < 0 THEN 0 - n ELSE n
ISign(n) == IF n < 0 THEN 0 - 1 ELSE IF n > 0 THEN 1 ELSE 0

\* n/d in lowest terms with the factor x; a zero carries no factor
FinX(n, d, x) ==
    LET g == Gcd(IAbs(n), IAbs(d))
        s == ISign(d)
    IN  [k |-> "fin", n |-> (s * n) \div g, d |-> (s * d) \div g,
         x |-> IF n = 0 THEN NoX ELSE x]
Fin(n, d) == FinX(n, d, NoX)
F(n) == Fin(n, 1)
NaN == [k |-> "nan", n |-> 0, d |-> 1, x |-> NoX]
Inf(sign) == [k |-> "inf", n |-> sign, d |-> 1, x |-> NoX]
Irrational == [k |-> "irrational", n |-> 0, d |-> 1, x |-> NoX]

IsNaN(a) == a.k = "nan"
IsFinite(a) == a.k = "fin"

\* the sign of the factor Xfac(B, rs) a number carries
XSign(x) == IF x = NoX THEN 1 ELSE IF x[1] < x[3] * x[2] THEN 0 - 1 ELSE 1
\* the sign of a number that is not NaN
Sign(a) == ISign(a.n) * XSign(a.x)

Neg(a) == IF a.k \in {"fin", "inf"} THEN [a EXCEPT !.n = 0 - a.n] ELSE a

Mul(a, b) ==
    IF a.k = "irrational" \/ b.k = "irrational" THEN Irrational
    ELSE IF IsNaN(a) \/ IsNaN(b) THEN NaN
    ELSE IF a.k = "inf" \/ b.k = "inf"
      THEN IF Sign(a) * Sign(b) = 0 THEN NaN ELSE Inf(Sign(a) * Sign(b))
    ELSE IF a.x # NoX /\ b.x # NoX THEN Irrational
    ELSE FinX(a.n * b.n, a.d * b.d, IF a.x # NoX THEN a.x ELSE b.x)

Add(a, b) ==
    IF a.k = "irrational" \/ b.k = "irrational" THEN Irrational
    ELSE IF IsNaN(a) \/ IsNaN(b) THEN NaN
    ELSE IF a.k = "inf" /\ b.k = "inf"
      THEN IF Sign(a) = Sign(b) THEN Inf(Sign(a)) ELSE NaN
    ELSE IF a.k = "inf" THEN Inf(Sign(a))
    ELSE IF b.k = "inf" THEN Inf(Sign(b))
    ELSE IF a.n = 0 THEN b
    ELSE IF b.n = 0 THEN a
    ELSE IF a.x # b.x THEN Irrational
    ELSE FinX(a.n * b.d + b.n * a.d, a.d * b.d, a.x)

Sub(a, b) == Add(a, Neg(b))

\* a / b for a divisor b that carries no factor
Div(a, b) ==
    IF a.k = "irrational" \/ b.k = "irrational" \/ b.x # NoX THEN Irrational
    ELSE IF IsNaN(a) \/ IsNaN(b) THEN NaN
    ELSE IF a.k = "inf"
      THEN IF b.k = "inf" THEN NaN
           ELSE Inf(Sign(a) * (IF b.n < 0 THEN 0 - 1 ELSE 1))
    ELSE IF b.k = "inf" THEN F(0)
    ELSE IF b.n = 0
      THEN IF a.n = 0 THEN NaN ELSE Inf(Sign(a))
    ELSE FinX(a.n * b.d, a.d * b.n, a.x)

\* x**2.0
Sq(a) == Mul(a, a)

\* Bounds: the largest root held; a root of a larger square is not taken.
MaxRoot == 60
Squares == {r * r : r \in 0..MaxRoot}
IsSquare(n) == n \in Squares
ISqrt(n) == CHOOSE r \in 0..MaxRoot : r * r = n

\* numpy.sqrt
Sqrt(a) ==
    IF a.k = "irrational" \/ a.x # NoX THEN Irrational
    ELSE IF IsNaN(a) THEN NaN
    ELSE IF a.k = "inf" THEN (IF a.n > 0 THEN a ELSE NaN)
    ELSE IF a.n < 0 THEN NaN
    ELSE IF IsSquare(a.n) /\ IsSquare(a.d) THEN Fin(ISqrt(a.n), ISqrt(a.d))
    ELSE Irrational

\* a < b and a == b of two plain floats
Lt(a, b) ==
    IF IsNaN(a) \/ IsNaN(b) THEN FALSE
    ELSE IF a.k = "inf" THEN a.n < 0 /\ ~(b.k = "inf" /\ b.n < 0)
    ELSE IF b.k = "inf" THEN b.n > 0
    ELSE a.n * b.d < b.n * a.d
Eq(a, b) == ~IsNaN(a) /\ ~IsNaN(b) /\ a = b

\* numpy.fabs(x) < 10.0**-10.0: a rational n/d with n # 0 and d below 2^31 is
\* at least 2^-31 in size, so of the floats held here only 0 is below 1e-10
BelowThreshold(a) == IsFinite(a) /\ a.n = 0

\* ---- vectors and matrices of floats
Vec(u) == [c \in 1..3 |-> F(u[c])]
Eye3 == <<Vec(<<1, 0, 0>>), Vec(<<0, 1, 0>>), Vec(<<0, 0, 1>>)>>
Sum3(u) == Add(Add(u[1], u[2]), u[3])
\* numpy.sum(M * tile(u), axis=-1): the matrix M applied to the vector u
MatVec(M, u) == [r \in 1..3 |-> Sum3([c \in 1..3 |-> Mul(M[r][c], u[c])])]

\* The rotation (inv: its inverse) that takes the direction of v onto the y
\* axis.  The stream velocities drawn here all point along +y, which the
\* rotation leaves where it is.
_rotation_vy(v, inv) == Eye3

\* s of HernquistX as sgn * sqrt(sq): numpy.sqrt(q) is Root(q)
Root(q) ==
    [sgn |-> 1, sq |-> IF IsNaN(q) \/ (q.k \in {"fin", "inf"} /\ q.n < 0) THEN NaN ELSE q]
SIsNaN(s) == IsNaN(s.sq)
SLt0(s) == ~SIsNaN(s) /\ s.sgn < 0 /\ s.sq # F(0)
SLt1(s) == ~SIsNaN(s) /\ (SLt0(s) \/ Lt(s.sq, F(1)))
SEq1(s) == ~SIsNaN(s) /\ s.sgn > 0 /\ Eq(s.sq, F(1))

\* the value of X(s) for a finite s > 0 other than 1: finite and positive,
\* above 1 for s < 1 and below 1 for s > 1; kept by name
HX(s) == [k |-> "hx", n |-> s.sq.n, d |-> s.sq.d, x |-> NoX]

\* HernquistX with <= for < in line 1395
HernquistX_m(s) ==
    IF SLt0(s) \/ s.sq = F(0)
      THEN [raised |-> TRUE, branch |-> "raise", val |-> NaN]
    ELSE IF SLt1(s)
      THEN [raised |-> FALSE, branch |-> "s<1", val |-> HX(s)]
    ELSE IF SEq1(s)
      THEN [raised |-> FALSE, branch |-> "s==1", val |-> F(1)]
    ELSE [raised |-> FALSE, branch |-> "s>1",
          val |-> IF SIsNaN(s) THEN NaN ELSE IF s.sq.k = "inf" THEN F(0) ELSE HX(s)]

\* lines 1391-1402: HernquistX(s); log(2/0)/1 is +inf at s = 0,
\* arccos(0)/inf is 0 at s = +inf, and NaN fails every test and ends in the
\* last branch
HernquistX(s) ==
    IF SLt0(s)
      THEN [raised |-> TRUE, branch |-> "raise", val |-> NaN]
    ELSE IF SLt1(s)
      THEN [raised |-> FALSE, branch |-> "s<1",
            val |-> IF s.sq = F(0) THEN Inf(1) ELSE HX(s)]
    ELSE IF SEq1(s)
      THEN [raised |-> FALSE, branch |-> "s==1", val |-> F(1)]
    ELSE [raised |-> FALSE, branch |-> "s>1",
          val |-> IF SIsNaN(s) THEN NaN ELSE IF s.sq.k = "inf" THEN F(0) ELSE HX(s)]

\* line 1451: Xfac = 1.0 - 2.0 * rs / (rs + B) * HernquistXv(s)
XfacOf(rs, B, X) ==
    IF X.k = "hx" THEN FinX(1, 1, <<B.n, B.d, rs.n>>)
    ELSE Sub(F(1), Mul(Div(Mul(F(2), rs), Add(rs, B)), X))

\* ---- the part the two calculators share, lines 1309-1316 and 1441-1447.
\* Each step is an operator of the values it reads, in the order of the code.

\* tilew = numpy.sum(rot * numpy.tile(w, (nv, 3, 1)), axis=-1)
Tilew(v, w) == MatVec(_rotation_vy(v, FALSE), w)
\* wperp = numpy.sqrt(tilew[:, 0] ** 2.0 + tilew[:, 2] ** 2.0)
Wperp(tilew) == Sqrt(Add(Sq(tilew[1]), Sq(tilew[3])))
\* wpar = numpy.sqrt(numpy.sum(v**2.0, axis=1)) - tilew[:, 1]
Wpar(v, tilew) == Sub(Sqrt(Sum3([c \in 1..3 |-> Sq(v[c])])), tilew[2])
\* wmag2 = wpar**2.0 + wperp**2.0
Wmag2(wpar, wperp) == Add(Sq(wpar), Sq(wperp))

\* wmag = numpy.sqrt(wmag2), and the values so far as one record
FrameMag(tilew, wperp, wpar, wmag2) ==
    [tilew |-> tilew, wperp |-> wperp, wpar |-> wpar, wmag2 |-> wmag2,
     wmag |-> Sqrt(wmag2)]
FrameSpeeds(tilew, wperp, wpar) == FrameMag(tilew, wperp, wpar, Wmag2(wpar, wperp))
FrameTilew(v, tilew) == FrameSpeeds(tilew, Wperp(tilew), Wpar(v, tilew))
Frame(v, w) == FrameTilew(v, Tilew(v, w))

\* lines 1335-1341 and 1485-1491: 2.0 * GM * (rotinv applied to out)
RotateBack(v, GM, out) ==
    [c \in 1..3 |-> Mul(Mul(F(2), GM), MatVec(_rotation_vy(v, TRUE), out)[c])]

\* ---- impulse_deltav_plummer

\* line 1318
plummer_denom(g, y, b, rs) ==
    Mul(g.wmag, Add(Mul(Add(Sq(b), Sq(rs)), g.wmag2), Mul(Sq(g.wperp), Sq(y))))

\* lines 1319-1321, evaluated for every star
plummer_general(g, y, b, denom) ==
    <<Div(Sub(Div(Mul(Mul(b, g.wmag2), g.tilew[3]), g.wperp),
              Mul(Mul(y, g.wpar), g.tilew[1])), denom),
      Div(Mul(Neg(Sq(g.wperp)), y), denom),
      Div(Neg(Add(Div(Mul(Mul(b, g.wmag2), g.tilew[1]), g.wperp),
                  Mul(Mul(y, g.wpar), g.tilew[3]))), denom)>>

\* lines 1323-1333 without the overwrite of component 2
plummer_perpendicular_m(g, y, b, denom, out) ==
    IF BelowThreshold(g.wperp)
      THEN <<Div(Sub(Mul(b, g.wmag2), Mul(Mul(y, g.wpar), g.tilew[1])), denom),
             out[2],
             out[3]>>
      ELSE out

\* lines 1323-1333: components 0 and 2 overwritten where wperp < 1e-10
plummer_perpendicular(g, y, b, denom, out) ==
    IF BelowThreshold(g.wperp)
      THEN <<Div(Sub(Mul(b, g.wmag2), Mul(Mul(y, g.wpar), g.tilew[1])), denom),
             out[2],
             Div(Neg(Add(Mul(b, g.wmag2), Mul(Mul(y, g.wpar), g.tilew[3]))), denom)>>
      ELSE out

plummer_result(v, GM, g, denom, out) ==
    [tilew |-> g.tilew, wperp |-> g.wperp, wpar |-> g.wpar, wmag2 |-> g.wmag2,
     wmag |-> g.wmag, denom |-> denom, wperp0Indx |-> BelowThreshold(g.wperp),
     out |-> out, deltav |-> RotateBack(v, GM, out)]
plummer_kick(v, y, b, GM, g, denom) ==
    plummer_result(v, GM, g, denom,
                   plummer_perpendicular(g, y, b, denom, plummer_general(g, y, b, denom)))
plummer_frame(v, y, b, GM, rs, g) ==
    plummer_kick(v, y, b, GM, g, plummer_denom(g, y, b, rs))

\* lines 1307-1341: impulse_deltav_plummer for one star, the row (v, y)
plummer_star(v, y, b, w, GM, rs) == plummer_frame(v, y, b, GM, rs, Frame(v, w))

\* lines 1275-1341: impulse_deltav_plummer(v, y, b, w, GM, rs) for the stars
\* (v[i], y[i]); the result holds each star's intermediate values and its kick
impulse_deltav_plummer(v, y, b, w, GM, rs) ==
    [i \in 1..Len(v) |-> plummer_star(Vec(v[i]), F(y[i]), F(b), Vec(w), F(GM), F(rs))]

\* ---- impulse_deltav_hernquist

\* line 1446
hernquist_B(g, y, b) == Sqrt(Add(Sq(b), Div(Mul(Sq(g.wperp), Sq(y)), g.wmag2)))
\* lines 1447-1448
hernquist_denom(g, B, rs) == Div(F(1), Mul(g.wmag, Sub(Sq(B), Sq(rs))))
\* line 1449
hernquist_s(B, rs) == Root(Div(Mul(F(2), B), Add(rs, B)))

\* lines 1453-1459, evaluated for every star
hernquist_general(g, y, b, denom, Xfac) ==
    <<Mul(Mul(Sub(Div(Mul(b, g.tilew[3]), g.wperp),
                  Div(Mul(Mul(y, g.wpar), g.tilew[1]), g.wmag2)), denom), Xfac),
      Div(Mul(Mul(Mul(Neg(Sq(g.wperp)), y), denom), Xfac), g.wmag2),
      Mul(Mul(Neg(Add(Div(Mul(b, g.tilew[1]), g.wperp),
                      Div(Mul(Mul(y, g.wpar), g.tilew[3]), g.wmag2))), denom), Xfac)>>

\* lines 1461-1483: components 0 and 2 overwritten where wperp < 1e-10
hernquist_perpendicular(g, y, b, denom, Xfac, out) ==
    IF BelowThreshold(g.wperp)
      THEN <<Mul(Mul(Sub(b, Div(Mul(Mul(y, g.wpar), g.tilew[1]), g.wmag2)), denom), Xfac),
             out[2],
             Mul(Mul(Neg(Add(b, Div(Mul(Mul(y, g.wpar), g.tilew[3]), g.wmag2))),
                     denom), Xfac)>>
      ELSE out

hernquist_result(v, GM, g, B, s, X, Xfac, denom, out) ==
    [tilew |-> g.tilew, wperp |-> g.wperp, wpar |-> g.wpar, wmag2 |-> g.wmag2,
     wmag |-> g.wmag, B |-> B, s |-> s, X |-> X, Xfac |-> Xfac,
     denom |-> denom, wperp0Indx |-> BelowThreshold(g.wperp),
     out |-> out, deltav |-> RotateBack(v, GM, out)]
hernquist_kick(v, y, b, GM, g, B, s, X, Xfac, denom) ==
    hernquist_result(v, GM, g, B, s, X, Xfac, denom,
                     hernquist_perpendicular(g, y, b, denom, Xfac,
                                             hernquist_general(g, y, b, denom, Xfac)))
hernquist_X(v, y, b, GM, rs, g, B, s, X) ==
    hernquist_kick(v, y, b, GM, g, B, s, X, XfacOf(rs, B, X.val),
                   hernquist_denom(g, B, rs))
hernquist_s_of(v, y, b, GM, rs, g, B, s) ==
    hernquist_X(v, y, b, GM, rs, g, B, s, HernquistX(s))
hernquist_B_of(v, y, b, GM, rs, g, B) ==
    hernquist_s_of(v, y, b, GM, rs, g, B, hernquist_s(B, rs))
hernquist_frame(v, y, b, GM, rs, g) ==
    hernquist_B_of(v, y, b, GM, rs, g, hernquist_B(g, y, b))

\* lines 1436-1491: impulse_deltav_hernquist for one star, the row (v, y)
hernquist_star(v, y, b, w, GM, rs) == hernquist_frame(v, y, b, GM, rs, Frame(v, w))

\* lines 1405-1491: impulse_deltav_hernquist(v, y, b, w, GM, rs) for the stars
\* (v[i], y[i]); the result holds each star's intermediate values and its kick
impulse_deltav_hernquist(v, y, b, w, GM, rs) ==
    [i \in 1..Len(v) |-> hernquist_star(Vec(v[i]), F(y[i]), F(b), Vec(w), F(GM), F(rs))]

\* Bounds: the most stars in one call.
MaxStars == 2

\* The inputs drawn: the stream velocity (along +y, the same for every star
\* of a call), positions along the stream,
\* impact parameters, perturber velocities, masses and scale radii.
KickVs == {<<0, 1, 0>>, <<0, 3, 0>>}
KickYs == {-5, 0, 5}
KickBs == {0, 1, 4}
KickWs == {<<0, 1, 0>>, <<0, 3, 0>>, <<0, -1, 0>>,
           <<3, 1, 0>>, <<0, 3, 4>>,
           <<3, -3, 0>>, <<0, 5, 3>>, <<-3, -1, 0>>}
KickGMs == {1, 2}
KickRs == {1, 4}
\* the positions of the stars of one call
KickPositions == UNION {[1..n -> KickYs] : n \in 1..MaxStars}

\* the arguments of HernquistX drawn for a direct call
HernquistArgs ==
    {[sgn |-> g, sq |-> q] :
        g \in {-1, 1}, q \in {F(0), Fin(1, 4), F(1), F(4), Inf(1), NaN}}

\* no number of the result is a root the model does not hold
Representable(stars) ==
    \A i \in 1..Len(stars) : \A c \in 1..3 : stars[i].deltav[c].k # "irrational"

InitKick ==
    /\ kck = Idle
    /\ CtorIdle /\ InterpIdle /\ DensIdle /\ QdfIdle

\* a call of impulse_deltav_plummer
PlummerCall ==
    /\ kck.op = "idle"
    /\ \E v0 \in KickVs, y \in KickPositions, b \in KickBs, w \in KickWs,
          GM \in KickGMs, rs \in KickRs :
         LET v == [i \in 1..Len(y) |-> v0]
             res == impulse_deltav_plummer(v, y, b, w, GM, rs)
         IN  /\ Representable(res)
             /\ kck' = [op |-> "impulse_deltav_plummer", v |-> v, y |-> y, b |-> b,
                        w |-> w, GM |-> GM, rs |-> rs, raised |-> FALSE, stars |-> res]
    /\ UNCHANGED notKick

\* a call of impulse_deltav_hernquist; HernquistX raising for one star ends it
HernquistCall ==
    /\ kck.op = "idle"
    /\ \E v0 \in KickVs, y \in KickPositions, b \in KickBs, w \in KickWs,
          GM \in KickGMs, rs \in KickRs :
         LET v == [i \in 1..Len(y) |-> v0]
             res == impulse_deltav_hernquist(v, y, b, w, GM, rs)
         IN  /\ Representable(res)
             /\ kck' = [op |-> "impulse_deltav_hernquist", v |-> v, y |-> y, b |-> b,
                        w |-> w, GM |-> GM, rs |-> rs,
                        raised |-> \E i \in 1..Len(res) : res[i].X.raised,
                        stars |-> res]
    /\ UNCHANGED notKick

\* a direct call of HernquistX
HernquistXCall ==
    /\ kck.op = "idle"
    /\ \E s \in HernquistArgs :
         LET X == HernquistX(s)
         IN  kck' = [op |-> "HernquistX", s |-> s, raised |-> X.raised,
                     branch |-> X.branch, val |-> X.val]
    /\ UNCHANGED notKick

\* The time windows a call of impulse_deltav_plummerstream is given: None or a
\* time.
StreamTimes == {<<>>, <<0 - 2>>, <<3>>}

\* lines 1889-1893: the time window is checked before anything is computed
plummerstream_window(tmin, tmax) == tmax = <<>> \/ tmax = <<>>

\* lines 1907-1966: one integrate.quad over [tmin, tmax] for every star and
\* every component of the kick
plummerstream_quads(y, tmin, tmax) ==
    [ii \in 1..Len(y) |->
        [c \in 1..3 |-> [fn |-> "integrate.quad", y |-> y[ii], a |-> tmin, b |-> tmax]]]

\* lines 1858-1973: impulse_deltav_plummerstream(v, y, b, w, GSigma, rs, tmin, tmax)
impulse_deltav_plummerstream(y, tmin, tmax) ==
    IF plummerstream_window(tmin, tmax)
      THEN [raised |-> "ValueError", quads |-> <<>>]
      ELSE [raised |-> "none", quads |-> plummerstream_quads(y, tmin, tmax)]

\* a call of impulse_deltav_plummerstream
PlummerStreamCall ==
    /\ kck.op = "idle"
    /\ \E v0 \in KickVs, y \in KickPositions, tmin \in StreamTimes, tmax \in StreamTimes :
         LET res == impulse_deltav_plummerstream(y, tmin, tmax)
         IN  kck' = [op |-> "impulse_deltav_plummerstream", v |-> v0, y |-> y,
                     tmin |-> tmin, tmax |-> tmax,
                     raised |-> res.raised, quads |-> res.quads]
    /\ UNCHANGED notKick

\* the call has returned (or raised) to its caller
KickReturn ==
    /\ kck.op # "idle"
    /\ kck' = Idle
    /\ UNCHANGED notKick

NextKick == PlummerCall \/ HernquistCall \/ HernquistXCall \/ PlummerStreamCall
              \/ KickReturn

SpecKick == InitKick /\ [][NextKick]_vars

(***************************************************************************)
(*                  Claims about the kick calculators                      *)
(***************************************************************************)

\* the stars of the calculator call just made
KickCallStars == IF kck.op \in {"impulse_deltav_plummer", "impulse_deltav_hernquist"}
                   THEN 1..Len(kck.stars) ELSE {}
AllFinite(u) == \A c \in 1..3 : IsFinite(u[c])

\* The scenario of C5: impulse_deltav_plummer, b = 1, every star moving with
\* v = (0,1,0), positions y in {-5, 0, 5}.
C5_Scenario ==
    /\ kck.op = "impulse_deltav_plummer" /\ kck.b = 1
    /\ \A i \in 1..Len(kck.v) : kck.v[i] = <<0, 1, 0>> /\ kck.y[i] \in {-5, 0, 5}

C6_Directions ==
    {<<F(1), F(0)>>, <<F(0), F(1)>>, <<F(-1), F(0)>>, <<F(0), F(-1)>>,
     <<Fin(3, 5), Fin(4, 5)>>, <<Fin(4, 5), Fin(3, 5)>>,
     <<Fin(-3, 5), Fin(4, 5)>>, <<Fin(3, 5), Fin(-4, 5)>>,
     <<Fin(-3, 5), Fin(-4, 5)>>, <<Fin(-4, 5), Fin(3, 5)>>,
     <<Fin(4, 5), Fin(-3, 5)>>, <<Fin(-4, 5), Fin(-3, 5)>>}

\* The limit of lines 1319-1321 (Plummer) and 1453-1459 (Hernquist) for
\* tilew = (wperp*cos, ., wperp*sin) as wperp -> 0 with wpar, y and b fixed:
\* the terms in y vanish with wperp, component 1 vanishes, and b*tilew/wperp
\* stays b*(sin, -cos).  Its size b*wmag2/denom (Plummer), b*denom*Xfac
\* (Hernquist) is the same along every direction.
C6_Limit(st, dir) ==
    LET k == IF kck.op = "impulse_deltav_plummer"
               THEN Div(Mul(F(kck.b), st.wmag2), st.denom)
               ELSE Mul(Mul(F(kck.b), st.denom), st.Xfac)
    IN  <<Mul(k, dir[2]), F(0), Neg(Mul(k, dir[1]))>>

\* C6 as stated: for every star with wperp < 1e-10 the kick of either
\* calculator has no NaN and no Inf, and (in the frame of the star, before the
\* rotation back) it is the limit of the general-branch formula as wperp -> 0.
C6_Original ==
    \A i \in KickCallStars :
       kck.stars[i].wperp0Indx
       => /\ AllFinite(kck.stars[i].deltav)
          /\ \E dir \in C6_Directions : kck.stars[i].out = C6_Limit(kck.stars[i], dir)

\* C7: HernquistX(s) raises ValueError exactly when s < 0; for s >= 0 it takes
\* exactly the branch of s < 1, s == 1 or s > 1 that s lies in and returns 1.0
\* at s == 1; and no star of an impulse_deltav_hernquist call makes it raise.
C7_HernquistX ==
    /\ kck.op = "HernquistX"
       => /\ kck.raised <=> (~SIsNaN(kck.s) /\ kck.s.sgn < 0 /\ kck.s.sq # F(0))
          /\ (~SIsNaN(kck.s) /\ ~kck.raised)
             => /\ kck.branch = "s<1" <=> Lt(kck.s.sq, F(1))
                /\ kck.branch = "s==1" <=> kck.s.sq = F(1)
                /\ kck.branch = "s>1" <=> Lt(F(1), kck.s.sq)
                /\ kck.branch = "s==1" => kck.val = F(1)
    /\ kck.op = "impulse_deltav_hernquist"
       => /\ ~kck.raised
          /\ \A i \in KickCallStars :
               /\ ~kck.stars[i].X.raised
               /\ ~SIsNaN(kck.stars[i].s) => kck.stars[i].s.sgn > 0

\* A call of impulse_deltav_hernquist with a star at s == 0 (b = 0, B = 0),
\* the boundary of the raising branch, that did not raise.
C7_Witness ==
    /\ kck.op = "impulse_deltav_hernquist" /\ ~kck.raised
    /\ \E i \in KickCallStars :
         kck.stars[i].s.sq = F(0) /\ kck.stars[i].X.branch = "s<1"

\* C16 as stated: impulse_deltav_plummerstream raises ValueError whenever tmin
\* or tmax (either one) is not set, and never starts the quadrature with an
\* unset bound.
C16_Original ==
    kck.op = "impulse_deltav_plummerstream"
    => /\ (kck.tmin = <<>> \/ kck.tmax = <<>>) => kck.raised = "ValueError"
       /\ \A ii \in 1..Len(kck.quads) : \A c \in 1..3 :
            kck.quads[ii][c].a # <<>> /\ kck.quads[ii][c].b # <<>>

\* the divisor of line 1447 for a star of the call: wmag * (B**2 - rs**2)
C30_Divisor(st) == Mul(st.wmag, Sub(Sq(st.B), Sq(F(kck.rs))))

\* C30 as stated: for every valid input (b > 0, rs > 0, a relative speed that
\* is not zero) impulse_deltav_hernquist never divides by zero: the
\* denominator wmag * (B^2 - rs^2) is not zero for any star, in particular
\* when B equals rs (b = rs at y = 0), where HernquistX takes its s = 1 branch.
C30_Original ==
    (kck.op = "impulse_deltav_hernquist" /\ kck.b > 0 /\ kck.rs > 0)
    => \A i \in KickCallStars :
          (IsFinite(kck.stars[i].wmag) /\ kck.stars[i].wmag # F(0))
          => /\ C30_Divisor(kck.stars[i]) # F(0)
             /\ IsFinite(kck.stars[i].denom)

(***************************************************************************)
(*        THE APPROXIMATE DENSITY AND MEAN-FREQUENCY ENGINE                *)
(*                                                                         *)
(* The breakpoints Oparb and the lower limit of minOpar are rational and   *)
(* computed as the code computes them.  The integrals over an interval     *)
(* (erf, exp and Gaussian-times-polynomial terms) are transcendental: a    *)
(* sum of them is held as the set of its terms, each named by the line     *)
(* that forms it and the values it is formed from.  0.0 is the empty sum,  *)
(* and a term of the higher-order sum with a zero spline coefficient is 0. *)
(***************************************************************************)

\* Bounds: the highest spline order and the most intervals of the kick spline.
MaxOrder == 3
MaxIntervals == 2

\* self._kick_interpdOpar_poly.c for a spline of order k over n intervals:
\* rows 1..k+1, row k+1 is c[-1], row k is c[-2], rows 1..k-1 are c[:-2]
PolyCoefficients(k, n) ==
    {[r \in 1..(k + 1) |-> [i \in 1..n |-> IF r = k + 1 THEN c1 ELSE IF r = k THEN c2 ELSE ch * i]] :
        c1 \in {0, 1}, c2 \in {0, 1}, ch \in {0, 1}}

\* The fields of a constructed object that the density engine reads.
DensObjects ==
    UNION {[op : {"object"},
            _timpact : {1, 2},
            _tdisrupt : {5},
            _higherorderTrack : BOOLEAN,
            spline_order : {k},
            x : {[i \in 1..(n + 1) |-> i - 1]},
            c : PolyCoefficients(k, n)] :
              k \in 1..MaxOrder, n \in 1..MaxIntervals}

InitDens ==
    /\ den \in DensObjects /\ dqry = Idle
    /\ CtorIdle /\ InterpIdle /\ KickIdle /\ QdfIdle

\* self._kick_interpdOpar_poly.c[-1], c[-2] and the number of rows of c[:-2]
CLast == den.c[den.spline_order + 1]
CLast2 == den.c[den.spline_order]
NIntervals == Len(den.x) - 1

\* (dangle - self._kick_interpdOpar_poly.x) / self._timpact
Oparb0(dangle) == [i \in 1..Len(den.x) |-> Div(F(dangle - den.x[i]), F(den._timpact))]

\* numpy.argmin taking the last index of the least value
ArgMin_m(a) ==
    CHOOSE i \in 1..Len(a) :
        /\ \A j \in 1..Len(a) : ~Lt(a[j], a[i])
        /\ \A j \in (i + 1)..Len(a) : Lt(a[i], a[j])

\* numpy.argmin: the first index of the least value
ArgMin(a) ==
    CHOOSE i \in 1..Len(a) :
        /\ \A j \in 1..Len(a) : ~Lt(a[j], a[i])
        /\ \A j \in 1..(i - 1) : Lt(a[i], a[j])

\* lines 430-441: lowx of minOpar for the breakpoints Oparb, negative entries
\* replaced by inf
MinOparLowx(Oparb, dangle, tdisrupt) ==
    [i \in 1..NIntervals |->
        LET lowx == Div(Sub(Add(Mul(Sub(Oparb[i], F(CLast[i])),
                                    F(tdisrupt - den._timpact)),
                                Mul(Oparb[i], F(den._timpact))),
                            F(dangle)),
                        F((tdisrupt - den._timpact) * (1 + CLast2[i] * den._timpact)
                            + den._timpact))
        IN  IF Lt(lowx, F(0)) THEN Inf(1) ELSE lowx]

\* lines 442-444: (lowbindx, lowx[lowbindx]); indices count from 1
MinOparRaw(lowx, lowbindx) == <<lowbindx, lowx[lowbindx]>>
MinOparArgMin(lowx) == MinOparRaw(lowx, ArgMin(lowx))

\* lines 404-446: minOpar(dangle, tdisrupt, _return_raw=True)
minOpar(dangle, tdisrupt) == MinOparArgMin(MinOparLowx(Oparb0(dangle), dangle, tdisrupt))

\* OparbSet writing Oparb[lowbindx] instead of Oparb[lowbindx + 1]
OparbSet_m(Oparb, raw) ==
    [i \in 1..Len(Oparb) |->
        IF i = raw[1] THEN Sub(Oparb[i], raw[2]) ELSE Oparb[i]]

\* lines 291-292 and 517-518: Oparb[lowbindx + 1] = Oparb[lowbindx] - lowx
OparbSet(Oparb, raw) ==
    [i \in 1..Len(Oparb) |->
        IF i = raw[1] + 1 THEN Sub(Oparb[i - 1], raw[2]) ELSE Oparb[i]]

\* lines 288-292 and 514-518: the breakpoints the sums are taken over
OparbOf(dangle, tdisrupt) == OparbSet(Oparb0(dangle), minOpar(dangle, tdisrupt))

\* one term of a sum: the line t that forms it for interval i, power jj and
\* coefficient row r (0 where the line has none), and the values it reads
Term(t, i, jj, r, Oparb) ==
    [t |-> t, i |-> i, jj |-> jj, r |-> r,
     c |-> IF r = 0 THEN 0 ELSE den.c[r][i],
     c1 |-> CLast[i], c2 |-> CLast2[i], ul |-> Oparb[i], ll |-> Oparb[i + 1]]

\* The terms of a higher-order sum over the intervals up to lowbindx: powers
\* jj in 0..maxj, rows r of c[:-2] (there are spline_order - 1, none for a
\* linear spline); the binomial factor is 0 for jj above the power
\* spline_order - r + 1 (+ shift) of the row, and the term is 0 with c[r][i].
HigherOrderTerms(t, Oparb, lowbindx, maxj, shift) ==
    {Term(t, x[1], x[2], x[3], Oparb) :
        x \in {z \in (1..lowbindx) \X (0..maxj) \X (1..(den.spline_order - 1)) :
                  /\ den.c[z[3]][z[1]] # 0
                  /\ z[2] <= den.spline_order - z[3] + 1 + shift}}

\* lines 333-378: _density_par_approx_higherorder(Oparb, lowbindx)
_density_par_approx_higherorder(Oparb, lowbindx) ==
    IF den.spline_order = 1 THEN {}
    ELSE HigherOrderTerms("density_higherorder", Oparb, lowbindx, den.spline_order, 0)

\* lines 293-331 adding the higher-order sum whatever the flag (line 321)
density_sum_m(Oparb, lowbindx, _return_array, higherorder) ==
    IF _return_array
      THEN {Term("density_linear", i, 0, 0, Oparb) : i \in 1..NIntervals}
      ELSE {Term("density_linear", i, 0, 0, Oparb) : i \in 1..lowbindx}
           \cup _density_par_approx_higherorder(Oparb, lowbindx)
           \cup {Term("density_tail", 1, 0, 0, Oparb)}

\* lines 293-331: the sum over the intervals up to lowbindx, the higher-order
\* sum if asked for, and the integration to infinity
density_sum(Oparb, lowbindx, _return_array, higherorder) ==
    IF _return_array
      THEN {Term("density_linear", i, 0, 0, Oparb) : i \in 1..NIntervals}
      ELSE {Term("density_linear", i, 0, 0, Oparb) : i \in 1..lowbindx}
           \cup (IF higherorder
                   THEN _density_par_approx_higherorder(Oparb, lowbindx)
                   ELSE {})
           \cup {Term("density_tail", 1, 0, 0, Oparb)}

\* lines 283-331: _density_par_approx(dangle, tdisrupt, _return_array, higherorder)
_density_par_approx(dangle, tdisrupt, _return_array, higherorder) ==
    density_sum(OparbOf(dangle, tdisrupt), minOpar(dangle, tdisrupt)[1],
                _return_array, higherorder)

\* the value of integrate.quad over the exact integrand named t
Quad(t, dangle) ==
    {[t |-> t, i |-> 0, jj |-> 0, r |-> 0, c |-> 0, c1 |-> 0, c2 |-> 0,
      ul |-> F(dangle), ll |-> F(dangle)]}

\* lines 260-281: _density_par(dangle, tdisrupt, approx, higherorder)
_density_par(dangle, tdisrupt, approx, higherorder) ==
    IF approx
      THEN _density_par_approx(dangle, Default(tdisrupt, den._tdisrupt), FALSE,
                               Default(higherorder, den._higherorderTrack))
      ELSE Quad("density_quad", dangle)

\* lines 576-623: _meanOmega_num_approx_higherorder(Oparb, lowbindx): the sum of
\* the Gaussian integrals (line 621) and firstTerm (lines 596-601)
_meanOmega_num_approx_higherorder(Oparb, lowbindx) ==
    IF den.spline_order = 1 THEN {}
    ELSE HigherOrderTerms("meanOmega_higherorder", Oparb, lowbindx,
                          den.spline_order + 1, 1)
         \cup HigherOrderTerms("meanOmega_firstTerm", Oparb, lowbindx,
                               den.spline_order, 0)

\* lines 519-574: the sum over the intervals up to lowbindx, the higher-order
\* sum if asked for, and the integration to infinity
meanOmega_num_sum(Oparb, lowbindx, higherorder) ==
    {Term("meanOmega_linear", i, 0, 0, Oparb) : i \in 1..lowbindx}
    \cup (IF higherorder
            THEN _meanOmega_num_approx_higherorder(Oparb, lowbindx)
            ELSE {})
    \cup {Term("meanOmega_tail", 1, 0, 0, Oparb)}

\* lines 511-574: _meanOmega_num_approx(dangle, tdisrupt, higherorder)
_meanOmega_num_approx(dangle, tdisrupt, higherorder) ==
    meanOmega_num_sum(OparbOf(dangle, tdisrupt), minOpar(dangle, tdisrupt)[1], higherorder)

\* lines 449-509: meanOmega(dangle, oned, tdisrupt, approx, higherorder): the
\* ratio num / denom, as dO1D or applied to the progenitor frequency
meanOmega(dangle, oned, tdisrupt, approx, higherorder) ==
    [form |-> IF oned THEN "dO1D" ELSE "progenitor_Omega + dO1D * direction",
     num |-> IF approx
               THEN _meanOmega_num_approx(dangle, Default(tdisrupt, den._tdisrupt),
                                          Default(higherorder, den._higherorderTrack))
               ELSE Quad("meanOmega_quad", dangle),
     denom |-> _density_par(dangle, tdisrupt, approx, higherorder)]

\* The arguments drawn for a call.
DensAngles == {1, 2, 3}
DensTdisrupts == {<<>>, <<4>>}
DensFlags == {<<>>, <<TRUE>>, <<FALSE>>}

\* a call of _density_par
DensityPar ==
    /\ den.op = "object" /\ dqry.op = "idle"
    /\ \E dangle \in DensAngles, tdisrupt \in DensTdisrupts, approx \in BOOLEAN,
          higherorder \in DensFlags :
         dqry' = [op |-> "_density_par", dangle |-> dangle, oned |-> FALSE,
                  tdisrupt |-> tdisrupt, approx |-> approx, higherorder |-> higherorder,
                  out |-> [form |-> "density", num |-> {},
                           denom |-> _density_par(dangle, tdisrupt, approx, higherorder)]]
    /\ UNCHANGED <<den, notDens>>

\* a call of meanOmega
MeanOmega ==
    /\ den.op = "object" /\ dqry.op = "idle"
    /\ \E dangle \in DensAngles, oned \in BOOLEAN, tdisrupt \in DensTdisrupts,
          approx \in BOOLEAN, higherorder \in DensFlags :
         dqry' = [op |-> "meanOmega", dangle |-> dangle, oned |-> oned,
                  tdisrupt |-> tdisrupt, approx |-> approx, higherorder |-> higherorder,
                  out |-> meanOmega(dangle, oned, tdisrupt, approx, higherorder)]
    /\ UNCHANGED <<den, notDens>>

\* Bound: the longest Opar array pOparapar is called with.
MaxOpars == 2

\* the angle the kicks are interpolated over: the kick grid spans the track
\* near the impact (lines 834-836)
DeltaAngleTrackImpact == den.x[Len(den.x)]

\* the piecewise polynomial of the parallel kick on interval i at angle a, by
\* Horner's rule over rows 1..r of c: sum of c[j][i] * (a - x[i]) ** (r - j)
RECURSIVE Horner(_, _, _)
Horner(r, i, a) ==
    IF r = 1 THEN den.c[1][i]
    ELSE Horner(r - 1, i, a) * (a - den.x[i]) + den.c[r][i]

\* lines 790-793 under impact_check_range (lines 20-35): self._kick_interpdOpar
\* of one angle, 0 outside (0, _deltaAngleTrackImpact)
_kick_interpdOpar(a) ==
    IF a >= DeltaAngleTrackImpact \/ a <= 0 THEN 0
    ELSE Horner(den.spline_order + 1,
                CHOOSE i \in 1..NIntervals : den.x[i] <= a /\ a < den.x[i + 1], a)

\* streamdf.pOparapar(Opar, apar, tdisrupt) of the smooth stream, element by
\* element; apar is one angle (nd FALSE) or an array as long as Opar
super_pOparapar(Opar, apar, tdisrupt) ==
    [i \in 1..Len(Opar) |->
        [fn |-> "streamdf.pOparapar", Opar |-> Opar[i],
         apar |-> IF apar.nd THEN apar.v[i] ELSE apar.v, tdisrupt |-> tdisrupt]]

\* numpy.zeros_like(Opar)
ZerosLike(Opar) == [i \in 1..Len(Opar) |-> [fn |-> "zeros_like"]]

\* lines 250-251: stripped after the impact
AfterIndx(ts) ==
    [i \in 1..Len(ts) |-> Lt(ts[i], F(den._timpact)) /\ (Lt(F(0), ts[i]) \/ Eq(ts[i], F(0)))]

Not(mask) == [i \in 1..Len(mask) |-> ~mask[i]]

\* lines 251-257: the two regimes written into out
pOparapar_fill(Opar, apar, apar_impact, Opar_b4impact, afterIndx, out) ==
    Put(Put(out, afterIndx,
            super_pOparapar(Take(Opar, afterIndx), [nd |-> FALSE, v |-> apar],
                            den._tdisrupt)),
        Not(afterIndx),
        super_pOparapar(Take(Opar_b4impact, Not(afterIndx)),
                        [nd |-> TRUE, v |-> Take(apar_impact, Not(afterIndx))],
                        den._tdisrupt - den._timpact))

\* pOparapar_kick with the test ts >= 0 of line 250 left out
pOparapar_kick_m(Opar, apar, apar_impact) ==
    pOparapar_fill(Opar, apar, apar_impact,
                   [i \in 1..Len(Opar) |-> Opar[i] - _kick_interpdOpar(apar_impact[i])],
                   [i \in 1..Len(Opar) |-> Lt(Div(F(apar), F(Opar[i])), F(den._timpact))],
                   ZerosLike(Opar))

\* lines 243-250: ts, the kick at the impact and the frequency before it
pOparapar_kick(Opar, apar, apar_impact) ==
    pOparapar_fill(Opar, apar, apar_impact,
                   [i \in 1..Len(Opar) |-> Opar[i] - _kick_interpdOpar(apar_impact[i])],
                   AfterIndx([i \in 1..Len(Opar) |-> Div(F(apar), F(Opar[i]))]),
                   ZerosLike(Opar))

\* lines 240-258: pOparapar(Opar, apar) for an array Opar
pOparapar(Opar, apar) ==
    pOparapar_kick(Opar, apar, [i \in 1..Len(Opar) |-> apar - Opar[i] * den._timpact])

\* The arguments drawn for a call of pOparapar.
POpars == {-1, 0, 1, 2, 4}
PApars == {-1, 0, 1, 3}

\* a call of pOparapar
POparapar ==
    /\ den.op = "object" /\ dqry.op = "idle"
    /\ \E n \in 1..MaxOpars :
         \E Opar \in [1..n -> POpars], apar \in PApars :
           dqry' = [op |-> "pOparapar", Opar |-> Opar, apar |-> apar,
                    out |-> pOparapar(Opar, apar)]
    /\ UNCHANGED <<den, notDens>>

\* minOpar_value adding lowx in line 446
minOpar_value_m(Oparb, raw) == Add(Oparb[raw[1]], raw[2])

\* lines 445-446: Oparb[lowbindx] - lowx[lowbindx]
minOpar_value(Oparb, raw) == Sub(Oparb[raw[1]], raw[2])

\* lines 404-446: minOpar(dangle, tdisrupt) with _return_raw=False
minOpar_frequency(dangle, tdisrupt) ==
    minOpar_value(Oparb0(dangle), minOpar(dangle, Default(tdisrupt, den._tdisrupt)))

\* a call of minOpar
MinOpar ==
    /\ den.op = "object" /\ dqry.op = "idle"
    /\ \E dangle \in DensAngles, tdisrupt \in DensTdisrupts :
         dqry' = [op |-> "minOpar", dangle |-> dangle, tdisrupt |-> tdisrupt,
                  out |-> minOpar_frequency(dangle, tdisrupt)]
    /\ UNCHANGED <<den, notDens>>

\* line 527: the density of every interval, as the numerator asks for it
_meanOmega_num_density_array(dangle, tdisrupt) ==
    _density_par_approx(dangle, tdisrupt, TRUE, FALSE)

\* a call of _density_par_approx or of _meanOmega_num_approx
ApproxCall ==
    /\ den.op = "object" /\ dqry.op = "idle"
    /\ \E dangle \in DensAngles, tdisrupt \in {4, 5}, higherorder \in BOOLEAN :
         \/ dqry' = [op |-> "_density_par_approx", dangle |-> dangle,
                     tdisrupt |-> tdisrupt, higherorder |-> higherorder,
                     array |-> {},
                     out |-> _density_par_approx(dangle, tdisrupt, FALSE, higherorder)]
         \/ dqry' = [op |-> "_meanOmega_num_approx", dangle |-> dangle,
                     tdisrupt |-> tdisrupt, higherorder |-> higherorder,
                     array |-> _meanOmega_num_density_array(dangle, tdisrupt),
                     out |-> _meanOmega_num_approx(dangle, tdisrupt, higherorder)]
    /\ UNCHANGED <<den, notDens>>

\* the call has returned to its caller
DensReturn ==
    /\ dqry.op # "idle"
    /\ dqry' = Idle
    /\ UNCHANGED <<den, notDens>>

NextDens ==
    DensityPar \/ MeanOmega \/ POparapar \/ MinOpar \/ ApproxCall \/ DensReturn

SpecDens == InitDens /\ [][NextDens]_vars


(***************************************************************************)
(* Properties of the density engine                                        *)
(***************************************************************************)

\* the lines that form the terms of a higher-order correction
HigherOrderLines == {"density_higherorder", "meanOmega_higherorder", "meanOmega_firstTerm"}

\* the terms of a higher-order correction in a returned value
CorrectionIn(out) == {x \in out.num \cup out.denom : x.t \in HigherOrderLines}

\* the value the call of the state returns when made with another higherorder
DensCallWith(higherorder) ==
    IF dqry.op = "_density_par"
      THEN [form |-> "density", num |-> {},
            denom |-> _density_par(dqry.dangle, dqry.tdisrupt, dqry.approx, higherorder)]
      ELSE meanOmega(dqry.dangle, dqry.oned, dqry.tdisrupt, dqry.approx, higherorder)

\* C9: for an order-1 (linear) kick spline the higher-order correction is
\* exactly zero in the density and in the mean-frequency numerator, so
\* _density_par and meanOmega return the same value with higherorder=True as
\* with higherorder=False; a correction is in a returned value only when the
\* call is approximate, the higherorder flag in effect is set and the spline
\* order is above 1.
C9_NoCorrectionAtOrderOne ==
    dqry.op \in {"_density_par", "meanOmega"} =>
        /\ den.spline_order = 1 =>
              /\ CorrectionIn(dqry.out) = {}
              /\ _density_par_approx_higherorder(OparbOf(dqry.dangle, Default(dqry.tdisrupt, den._tdisrupt)), NIntervals) = {}
              /\ _meanOmega_num_approx_higherorder(OparbOf(dqry.dangle, Default(dqry.tdisrupt, den._tdisrupt)), NIntervals) = {}
              /\ DensCallWith(<<TRUE>>) = DensCallWith(<<FALSE>>)
              /\ dqry.out = DensCallWith(<<TRUE>>)
        /\ CorrectionIn(dqry.out) # {} =>
              /\ dqry.approx
              /\ Default(dqry.higherorder, den._higherorderTrack)
              /\ den.spline_order > 1

\* an approximate meanOmega call with higherorder=True on an order-1 spline
C9_Witness ==
    /\ dqry.op = "meanOmega" /\ den.spline_order = 1
    /\ dqry.approx /\ dqry.higherorder = <<TRUE>>
    /\ dqry.out = DensCallWith(<<FALSE>>)

\* the element of Opar is in the regime stripped after the impact:
\* 0 <= apar / Opar < timpact, as an inequality of integers (Opar # 0)
C12_After(Opar, apar) ==
    /\ Opar # 0
    /\ (Opar > 0 => (apar >= 0 /\ apar < den._timpact * Opar))
    /\ (Opar < 0 => (apar <= 0 /\ apar > den._timpact * Opar))

\* the parallel kick at angle a as the claim reads it off the spline
C12_dOpar(a) ==
    IF a <= 0 \/ a >= DeltaAngleTrackImpact THEN 0
    ELSE LET i == CHOOSE j \in 1..NIntervals : den.x[j] <= a /\ a < den.x[j + 1]
         IN  IF a = den.x[i] THEN CLast[i] ELSE Horner(den.spline_order + 1, i, a)

\* C12: pOparapar(Opar, apar) evaluates each element of Opar by exactly one of
\* two branches: if 0 <= apar/Opar < timpact the unperturbed probability at
\* (Opar, apar); otherwise (apar/Opar negative, >= timpact, or Opar = 0) the
\* unperturbed probability at (Opar - dOpar(apar - Opar*timpact),
\* apar - Opar*timpact) with disruption time tdisrupt - timpact; the result is
\* as long as Opar and no element is left at its initial zero.
C12_TwoBranches ==
    dqry.op = "pOparapar" =>
        /\ Len(dqry.out) = Len(dqry.Opar)
        /\ \A i \in 1..Len(dqry.Opar) :
             LET O == dqry.Opar[i]
                 a == dqry.apar - O * den._timpact
             IN  /\ dqry.out[i].fn = "streamdf.pOparapar"
                 /\ IF C12_After(O, dqry.apar)
                      THEN dqry.out[i] = [fn |-> "streamdf.pOparapar", Opar |-> O,
                                          apar |-> dqry.apar, tdisrupt |-> den._tdisrupt]
                      ELSE dqry.out[i] = [fn |-> "streamdf.pOparapar",
                                          Opar |-> O - C12_dOpar(a), apar |-> a,
                                          tdisrupt |-> den._tdisrupt - den._timpact]

\* An array with one element stripped after the impact and one with Opar = 0
\* that lies on the track at the impact and is de-kicked by a kick that is
\* not 0.
C12_Witness ==
    /\ dqry.op = "pOparapar" /\ Len(dqry.Opar) = 2
    /\ C12_After(dqry.Opar[1], dqry.apar)
    /\ dqry.Opar[2] = 0 /\ dqry.apar > 0
    /\ dqry.out[2].Opar # 0
    /\ dqry.out[1].tdisrupt # dqry.out[2].tdisrupt

\* a <= b of two floats
Le(a, b) == Lt(a, b) \/ Eq(a, b)

\* the parallel frequencies of the breakpoints, (theta - x_j) / timpact
C13_Breakpoints(theta) ==
    {Div(F(theta - den.x[j]), F(den._timpact)) : j \in 1..Len(den.x)}

\* C13 as stated: minOpar(theta) at the impact angle theta is less than or equal
\* to the minimum parallel frequency among the breakpoints, the values
\* (theta - x_j) / timpact.
C13_Original ==
    dqry.op = "minOpar"
    => \A b \in C13_Breakpoints(dqry.dangle) : Le(dqry.out, b)

\* C13 amended: minOpar(theta) at the impact angle theta is less than or equal
\* to the maximum parallel frequency among the breakpoints, the values
\* (theta - x_j) / timpact: it is the frequency of the breakpoint of the
\* interval it selects, lowered by lowx >= 0.
C13_Amended ==
    dqry.op = "minOpar"
    => /\ \E b \in C13_Breakpoints(dqry.dangle) :
            /\ Le(dqry.out, b)
            /\ \A b2 \in C13_Breakpoints(dqry.dangle) : Le(b2, b)
       /\ LET raw == minOpar(dqry.dangle, Default(dqry.tdisrupt, den._tdisrupt))
          IN  /\ ~Lt(raw[2], F(0))
              /\ Le(dqry.out, Div(F(dqry.dangle - den.x[raw[1]]), F(den._timpact)))

\* minOpar at an impact angle inside the kick grid: the result is a positive
\* frequency and the last breakpoint has a negative one.
C13_Witness ==
    /\ dqry.op = "minOpar"
    /\ dqry.dangle < den.x[Len(den.x)]
    /\ IsFinite(dqry.out) /\ Lt(F(0), dqry.out)
    /\ \E b \in C13_Breakpoints(dqry.dangle) : Lt(b, F(0)) /\ Lt(b, dqry.out)

\* the terms of the sum over the intervals in the value the call returned
C25_Interval(out) == {x \in out : x.t \notin {"density_tail", "meanOmega_tail"}}
C25_Linear(out) == {x \in out : x.t \in {"density_linear", "meanOmega_linear"}}

\* the ends of interval i once the end of interval k is replaced
C25_Ends(Oparb, raw, i) ==
    [ul |-> Oparb[i],
     ll |-> IF i = raw[1] THEN Sub(Oparb[raw[1]], raw[2]) ELSE Oparb[i + 1]]

\* C25: in _density_par_approx and _meanOmega_num_approx, with (k, lowx) the
\* raw result of minOpar for the same (dangle, tdisrupt), the end of interval
\* k is replaced by Oparb[k] - lowx, exactly the intervals 0..k contribute to
\* the sum and every later interval is left out; the density array used in
\* the mean-frequency numerator has the same k and the same replaced end.
\* (Indices count from 1 here: k is raw[1], the intervals are 1..k.)
C25_Truncated ==
    dqry.op \in {"_density_par_approx", "_meanOmega_num_approx"} =>
        LET raw == minOpar(dqry.dangle, dqry.tdisrupt)
            Oparb == Oparb0(dqry.dangle)
        IN  /\ {x.i : x \in C25_Linear(dqry.out)} = 1..raw[1]
            /\ \A x \in C25_Interval(dqry.out) :
                 /\ x.i <= raw[1]
                 /\ [ul |-> x.ul, ll |-> x.ll] = C25_Ends(Oparb, raw, x.i)
            /\ dqry.op = "_meanOmega_num_approx" =>
                 \A i \in 1..raw[1] :
                    \E a \in dqry.array :
                       a.i = i /\ [ul |-> a.ul, ll |-> a.ll] = C25_Ends(Oparb, raw, i)

\* The numerator over two intervals of which only the first counts: its end
\* is the lowered breakpoint, and the density array has the same end there.
C25_Witness ==
    /\ dqry.op = "_meanOmega_num_approx" /\ NIntervals = 2
    /\ minOpar(dqry.dangle, dqry.tdisrupt)[1] = 1
    /\ IsFinite(minOpar(dqry.dangle, dqry.tdisrupt)[2])
    /\ Lt(F(0), minOpar(dqry.dangle, dqry.tdisrupt)[2])
    /\ \E x \in C25_Linear(dqry.out), a \in dqry.array :
         /\ x.i = 1 /\ a.i = 1 /\ a.ll = x.ll
         /\ x.ll # Oparb0(dqry.dangle)[2]
    /\ \A x \in C25_Interval(dqry.out) : x.i = 1

\* C27: for every dangle and tdisrupt the index k of
\* minOpar(dangle, tdisrupt, _return_raw=True) satisfies
\* 0 <= k <= (number of breakpoints - 2), so the write to Oparb[k+1] and the
\* slices [: k+1] of _density_par_approx and _meanOmega_num_approx stay in
\* range, also when no interval has a non-negative candidate bound: then
\* k = 0 and the bound is +infinity.  (Indices count from 1 here: k + 1 is
\* raw[1].)
C27_IndexInRange ==
    dqry.op \in {"_density_par_approx", "_meanOmega_num_approx", "minOpar"} =>
        LET td == IF dqry.op = "minOpar" THEN Default(dqry.tdisrupt, den._tdisrupt)
                  ELSE dqry.tdisrupt
            raw == minOpar(dqry.dangle, td)
            lowx == MinOparLowx(Oparb0(dqry.dangle), dqry.dangle, td)
        IN  /\ 0 <= raw[1] - 1 /\ raw[1] - 1 <= Len(den.x) - 2
            /\ raw[1] + 1 \in DOMAIN Oparb0(dqry.dangle)
            /\ raw[1] <= NIntervals
            /\ (\A i \in 1..NIntervals : lowx[i] = Inf(1))
                 => raw = <<1, Inf(1)>>

\* No interval has a non-negative candidate: the first is selected, with +inf.
C27_Witness ==
    /\ dqry.op = "_density_par_approx" /\ NIntervals = 2
    /\ minOpar(dqry.dangle, dqry.tdisrupt) = <<1, Inf(1)>>
    /\ \A x \in C25_Linear(dqry.out) : x.i = 1 /\ x.ll = Inf(0 - 1)

(***************************************************************************)
(*     THE GAUSS-LEGENDRE ORDER OF  quasiisothermaldf.pvR  AND  pvz        *)
(*                                                                         *)
(* The marginal velocity distributions integrate over the other two        *)
(* velocities on a Gauss-Legendre grid of order ngl.  Their value is a     *)
(* transcendental number and is held by name.                              *)
(***************************************************************************)

\* Bound: the largest Gauss-Legendre order a call is made with.
MaxNgl == 12

\* The velocities of the Riemann sum of the tests (numpy.linspace(-1, 1, 51)),
\* in units of 1/25: the two ends, the middle and one on each side.
QdfVs == {0 - 25, 0 - 1, 0, 1, 25}

\* pvX without the test of the parity of ngl
pvX_m(fn, v, ngl) ==
    [raised |-> "none", val |-> [fn |-> fn, v |-> v, R |-> "0.8", z |-> "0.1", ngl |-> ngl]]

\* quasiisothermaldf.pvR / pvz (v, R, z, ngl=ngl): an odd order is refused
pvX(fn, v, ngl) ==
    IF ngl % 2 = 1
      THEN [raised |-> "ValueError", val |-> <<>>]
      ELSE [raised |-> "none",
            val |-> [fn |-> fn, v |-> v, R |-> "0.8", z |-> "0.1", ngl |-> ngl]]

\* the exception a call in the list comprehensions of lines 436, 442, 449 (493,
\* 499, 506) ends with
RaisedBy(fn, v, ngl) == pvX(fn, v, ngl).raised

\* lines 429-452 and 486-509: test_pvR_staeckel_diffngl, test_pvz_staeckel_diffngl;
\* the bounds on the mean and the dispersion at ngl=10 and ngl=40 are
\* numerical and taken to hold
test_diffngl(fn) ==
    IF \E v \in QdfVs : RaisedBy(fn, v, 10) # "none" THEN "ValueError"
    ELSE IF \E v \in QdfVs : RaisedBy(fn, v, 40) # "none" THEN "ValueError"
    ELSE IF \E v \in QdfVs : RaisedBy(fn, v, 11) = "ValueError" THEN "passed"
    ELSE "AssertionError"

InitQdf ==
    /\ QdfIdle
    /\ CtorIdle /\ InterpIdle /\ KickIdle /\ DensIdle

\* a call of pvR
PvR ==
    /\ qdf.op = "idle"
    /\ \E v \in QdfVs, ngl \in 2..MaxNgl :
         qdf' = [op |-> "pvR", v |-> v, ngl |-> ngl, out |-> pvX("pvR", v, ngl)]
    /\ UNCHANGED notQdf

\* a call of pvz
Pvz ==
    /\ qdf.op = "idle"
    /\ \E v \in QdfVs, ngl \in 2..MaxNgl :
         qdf' = [op |-> "pvz", v |-> v, ngl |-> ngl, out |-> pvX("pvz", v, ngl)]
    /\ UNCHANGED notQdf

\* a run of one of the two tests
TestDiffNgl ==
    /\ qdf.op = "idle"
    /\ \E fn \in {"pvR", "pvz"} :
         qdf' = [op |-> "test_diffngl", fn |-> fn, out |-> test_diffngl(fn)]
    /\ UNCHANGED notQdf

\* the call or the test has returned
QdfReturn ==
    /\ qdf.op # "idle"
    /\ qdf' = Idle
    /\ UNCHANGED notQdf

NextQdf == PvR \/ Pvz \/ TestDiffNgl \/ QdfReturn

SpecQdf == InitQdf /\ [][NextQdf]_vars

(***************************************************************************)
(*                  Properties of the Gauss-Legendre order                 *)
(***************************************************************************)

\* C19: requesting a Gauss-Legendre grid of odd order (e.g. ngl=11) in
\* quasiisothermaldf.pvR or pvz raises ValueError, while even orders (ngl=10,
\* ngl=40) are accepted and return a result; the two tests of the orders pass.
C19_OddOrderRefused ==
    /\ qdf.op \in {"pvR", "pvz"}
         => /\ (\E k \in 0..MaxNgl : qdf.ngl = 2 * k + 1) => qdf.out.raised = "ValueError"
            /\ (\E k \in 0..MaxNgl : qdf.ngl = 2 * k)
                 => /\ qdf.out.raised = "none"
                    /\ qdf.out.val = [fn |-> qdf.op, v |-> qdf.v, R |-> "0.8",
                                      z |-> "0.1", ngl |-> qdf.ngl]
            /\ \A v \in QdfVs :
                 /\ pvX(qdf.op, v, 10).raised = "none"
                 /\ pvX(qdf.op, v, 40).raised = "none"
    /\ qdf.op = "test_diffngl" => qdf.out = "passed"

\* pvz called with ngl=11 has raised ValueError.
C19_Witness ==
    /\ qdf.op = "pvz" /\ qdf.ngl = 11 /\ qdf.out.raised = "ValueError"

(***************************************************************************)
(*      THE CHUNK SOLVE OF  _determine_impact_coordtransform               *)
(*                                                                         *)
(* _determine_stream_track_single is a deterministic function of the orbit *)
(* it starts from, the time along that orbit and the angle of the chunk.   *)
(* It is held as an injective code of its three arguments, so that two     *)
(* results are equal only when they were computed from the same arguments. *)
(* An orbit is the code of the phase-space point it was made from; the     *)
(* auxiliary orbit is 0.  Chunks are numbered 1..n; chunk i has the time   *)
(* _gap_trackts[i-1] and the angle thetasTrack[i-1], both held as i-1.     *)
(***************************************************************************)
MaxChunks == 3
MaxIterations == 2

\* larger than every time and angle index
Radix == MaxChunks + 1

auxiliaryTrack == 0

\* numpy.empty: a row that was never written
EmptyRow == 0 - 1

\* multiOut of one solve: (acfs, jac, invjac, ObsTrack row, ObsTrackAA row, detdOdJp)
_determine_stream_track_single(orbit, t, theta) ==
    [k \in 1..6 |-> 6 * (1 + t + Radix * (theta + Radix * orbit)) + (k - 1)]

\* Orbit(ObsTrack[ii, :]) without the mutation below
RefineOrbit_m(arrays, i) == auxiliaryTrack

\* Orbit(ObsTrack[ii, :])
RefineOrbit(arrays, i) == arrays.ObsTrack[i]

\* the six local arrays, as numpy.empty leaves them
EmptyArrays(n) ==
    [a \in {"allAcfsTrack", "alljacsTrack", "allinvjacsTrack", "ObsTrack",
            "ObsTrackAA", "detdOdJps"} |-> [i \in 1..n |-> EmptyRow]]

\* allAcfsTrack[ii, :] = multiOut[0] ... detdOdJps[ii] = multiOut[5]
WriteRow(arrays, i, multiOut) ==
    [allAcfsTrack |-> [arrays.allAcfsTrack EXCEPT ![i] = multiOut[1]],
     alljacsTrack |-> [arrays.alljacsTrack EXCEPT ![i] = multiOut[2]],
     allinvjacsTrack |-> [arrays.allinvjacsTrack EXCEPT ![i] = multiOut[3]],
     ObsTrack |-> [arrays.ObsTrack EXCEPT ![i] = multiOut[4]],
     ObsTrackAA |-> [arrays.ObsTrackAA EXCEPT ![i] = multiOut[5]],
     detdOdJps |-> [arrays.detdOdJps EXCEPT ![i] = multiOut[6]]]

\* the arguments of the solve of chunk i in pass nn (0 is the initial pass)
SolveArgs(arrays, nn, i) ==
    IF nn = 0
    THEN [orbit |-> auxiliaryTrack, t |-> i - 1, theta |-> i - 1]
    ELSE [orbit |-> RefineOrbit(arrays, i), t |-> 0, theta |-> i - 1]

\* the solve of chunk i in pass nn
SolveChunk(arrays, nn, i) ==
    LET a == SolveArgs(arrays, nn, i)
    IN  _determine_stream_track_single(a.orbit, a.t, a.theta)

\* what a solve adds to the record of the solves made
SolveEntry(arrays, nn, i) ==
    LET a == SolveArgs(arrays, nn, i)
    IN  [pass |-> nn, chunk |-> i, orbit |-> a.orbit, t |-> a.t,
         ObsTrack |-> SolveChunk(arrays, nn, i)[4]]

\* for ii in range(n): allAcfsTrack[ii, :] = multiOut[ii][0] ..., rows swapped
RECURSIVE GatherRows_m(_, _, _, _)
GatherRows_m(arrays, multiOut, i, n) ==
    IF i > n THEN arrays
    ELSE GatherRows_m(WriteRow(arrays, n + 1 - i, multiOut[i]), multiOut, i + 1, n)

\* for ii in range(n): allAcfsTrack[ii, :] = multiOut[ii][0] ...
RECURSIVE GatherRows(_, _, _, _)
GatherRows(arrays, multiOut, i, n) ==
    IF i > n THEN arrays
    ELSE GatherRows(WriteRow(arrays, i, multiOut[i]), multiOut, i + 1, n)

\* the eight caches of the impact track, from the local arrays
TrackCaches(arrays, n) ==
    [_gap_thetasTrack |-> [i \in 1..n |-> i - 1],
     _gap_ObsTrack |-> arrays.ObsTrack,
     _gap_ObsTrackAA |-> arrays.ObsTrackAA,
     _gap_allAcfsTrack |-> arrays.allAcfsTrack,
     _gap_alljacsTrack |-> arrays.alljacsTrack,
     _gap_allinvjacsTrack |-> arrays.allinvjacsTrack,
     _gap_detdOdJps |-> arrays.detdOdJps,
     _gap_ObsTrackXY |-> arrays.ObsTrack]

\* the end of a pass, with the caches written after every pass
PassDone_m(t) ==
    IF t.nn < t.nTrackIterations
    THEN [t EXCEPT !.nn = t.nn + 1, !.ii = 1, !.pc = "refine",
                   !.stored = <<TrackCaches(t.arrays, t.n)>>]
    ELSE [t EXCEPT !.pc = "store"]

\* the end of a pass: for nn in range(self.nTrackIterations), then the store
PassDone(t) ==
    IF t.nn < t.nTrackIterations
    THEN [t EXCEPT !.nn = t.nn + 1, !.ii = 1, !.pc = "refine"]
    ELSE [t EXCEPT !.pc = "store"]

\* an exception leaves the method: nothing after the raise is run
TrackRaise(t) == [t EXCEPT !.pc = "raised", !.err = "Exception"]

\* the solve that raises: <<>> when none does, <<pass, chunk>> otherwise
TrackFailures ==
    {<<>>} \cup ((0..MaxIterations) \X (1..MaxChunks))

InitTrack ==
    /\ \E multi \in {<<>>, <<2>>}, n \in 1..MaxChunks,
          its \in 0..MaxIterations, fail \in TrackFailures :
         trk = [op |-> "_determine_impact_coordtransform", pc |-> "initial",
                _multi |-> multi, n |-> n, nTrackIterations |-> its,
                fail |-> fail, nn |-> 0, ii |-> 1, arrays |-> EmptyArrays(n),
                dispatched |-> FALSE, pending |-> {}, failed |-> FALSE,
                multiOut |-> [i \in 1..n |-> <<>>],
                solves |-> <<>>, stored |-> <<>>, err |-> "none"]
    /\ ali = Idle
    /\ CtorIdle /\ InterpIdle /\ KickIdle /\ DensIdle /\ qdf = Idle

InPass == trk.op # "idle" /\ trk.pc \in {"initial", "refine"}

\* one turn of 'for ii in range(self._nTrackChunksImpact)' with multi=None
SerialSolve ==
    /\ InPass /\ trk._multi = <<>> /\ trk.ii <= trk.n
    /\ trk' = IF trk.fail = <<trk.nn, trk.ii>>
              THEN TrackRaise(trk)
              ELSE [trk EXCEPT
                      !.arrays = WriteRow(trk.arrays, trk.ii,
                                          SolveChunk(trk.arrays, trk.nn, trk.ii)),
                      !.solves = Append(trk.solves,
                                        SolveEntry(trk.arrays, trk.nn, trk.ii)),
                      !.ii = trk.ii + 1]
    /\ UNCHANGED notTrk

\* the serial loop over the chunks has ended
SerialPassDone ==
    /\ InPass /\ trk._multi = <<>> /\ trk.ii = trk.n + 1
    /\ trk' = PassDone(trk)
    /\ UNCHANGED notTrk

\* multi.parallel_map hands the chunks to the pool
Dispatch ==
    /\ InPass /\ trk._multi # <<>> /\ ~trk.dispatched
    /\ trk' = [trk EXCEPT !.dispatched = TRUE, !.pending = 1..trk.n]
    /\ UNCHANGED notTrk

\* a worker runs the lambda for chunk x; the chunks finish in any order
Worker ==
    /\ InPass /\ trk.dispatched
    /\ \E x \in trk.pending :
         trk' = IF trk.fail = <<trk.nn, x>>
                THEN [trk EXCEPT !.pending = trk.pending \ {x},
                                 !.failed = TRUE]
                ELSE [trk EXCEPT
                        !.pending = trk.pending \ {x},
                        !.multiOut[x] = <<SolveChunk(trk.arrays, trk.nn, x)>>,
                        !.solves = Append(trk.solves,
                                          SolveEntry(trk.arrays, trk.nn, x))]
    /\ UNCHANGED notTrk

\* parallel_map returns (or raises what a worker raised); the rows are copied
Gather ==
    /\ InPass /\ trk.dispatched /\ trk.pending = {}
    /\ trk' = IF trk.failed
              THEN TrackRaise(trk)
              ELSE PassDone([trk EXCEPT
                      !.arrays = GatherRows(trk.arrays,
                                            [x \in 1..trk.n |-> trk.multiOut[x][1]],
                                            1, trk.n),
                      !.dispatched = FALSE,
                      !.multiOut = [x \in 1..trk.n |-> <<>>]])
    /\ UNCHANGED notTrk

\* '# Store the track': the caches are written and the method returns
StoreTrack ==
    /\ trk.op # "idle" /\ trk.pc = "store"
    /\ trk' = [trk EXCEPT !.stored = <<TrackCaches(trk.arrays, trk.n)>>,
                          !.pc = "done"]
    /\ UNCHANGED notTrk

NextTrack ==
    SerialSolve \/ SerialPassDone \/ Dispatch \/ Worker \/ Gather \/ StoreTrack

SpecTrack == InitTrack /\ [][NextTrack]_vars

(***************************************************************************)
(*                    Claims about the chunk solve                         *)
(***************************************************************************)
\* the solves of chunk i in pass r that were made before solve k
C21_Solved(r, i, k) ==
    {j \in 1..(k - 1) : trk.solves[j].pass = r /\ trk.solves[j].chunk = i}

\* solve k of a refinement round starts from the point its own chunk got in
\* the round before, which was complete by then
C21_FromPrevious(k) ==
    LET s == trk.solves[k]
    IN  /\ s.orbit # auxiliaryTrack /\ s.t = 0
        /\ \A i \in 1..trk.n : Cardinality(C21_Solved(s.pass - 1, i, k)) = 1
        /\ \E j \in C21_Solved(s.pass - 1, s.chunk, k) :
             s.orbit = trk.solves[j].ObsTrack
        /\ \A j \in 1..(k - 1) :
             (trk.solves[j].pass # s.pass - 1 \/ trk.solves[j].chunk # s.chunk)
                => s.orbit # trk.solves[j].ObsTrack

\* C21: after one initial pass that solves every chunk from the auxiliary
\* orbit, exactly nTrackIterations refinement rounds are run strictly in
\* sequence, and in round r the solve of chunk i starts from the phase-space
\* point of chunk i produced by round r-1 (the initial pass for r = 1), never
\* from the auxiliary orbit, from a value of round r or from another chunk.
C21_Refinement ==
    trk.op # "idle" =>
        /\ \A k \in 1..Len(trk.solves) :
             LET s == trk.solves[k]
             IN  /\ s.pass = 0 => s.orbit = auxiliaryTrack /\ s.t = s.chunk - 1
                 /\ s.pass >= 1 => C21_FromPrevious(k)
                 /\ s.pass <= trk.nTrackIterations
                 /\ \A j \in 1..(k - 1) : trk.solves[j].pass <= s.pass
                 /\ C21_Solved(s.pass, s.chunk, k) = {}
        /\ trk.pc \in {"store", "done"}
             => Len(trk.solves) = trk.n * (trk.nTrackIterations + 1)

\* Two refinement rounds over three chunks were run by the pool, the chunks of
\* the last round finishing out of index order.
C21_Witness ==
    /\ trk.op # "idle" /\ trk.pc = "done" /\ trk._multi # <<>>
    /\ trk.n = 3 /\ trk.nTrackIterations = 2 /\ Len(trk.solves) = 9
    /\ trk.solves[7].pass = 2 /\ trk.solves[7].chunk = 3
    /\ trk.solves[9].chunk = 1

\* for ii in range(n): solve chunk ii and write its rows, with multi=None
RECURSIVE SerialPass(_, _, _, _)
SerialPass(arrays, nn, i, n) ==
    IF i > n THEN arrays
    ELSE SerialPass(WriteRow(arrays, i, SolveChunk(arrays, nn, i)), nn, i + 1, n)

\* the initial pass and the refinement rounds up to round its, with multi=None
RECURSIVE SerialRun(_, _, _, _)
SerialRun(arrays, nn, its, n) ==
    IF nn > its THEN arrays
    ELSE SerialRun(SerialPass(arrays, nn, 1, n), nn + 1, its, n)

\* C22: the stored impact track (phase-space points, action-angle points,
\* Jacobians, inverse Jacobians, determinants) is the same whether the chunks
\* are solved serially in index order or by a worker pool that completes them
\* in any order, after the initial pass and after every refinement round;
\* result i lands in row i.
C22_SerialParallel ==
    trk.op # "idle" =>
        /\ (trk.pc = "refine" /\ ~trk.dispatched /\ trk.ii = 1)
             => trk.arrays = SerialRun(EmptyArrays(trk.n), 0, trk.nn - 1, trk.n)
        /\ trk.pc = "store"
             => trk.arrays = SerialRun(EmptyArrays(trk.n), 0,
                                       trk.nTrackIterations, trk.n)
        /\ trk.pc = "done"
             => trk.stored = <<TrackCaches(SerialRun(EmptyArrays(trk.n), 0,
                                               trk.nTrackIterations, trk.n),
                                           trk.n)>>

\* The pool has solved three chunks in the initial pass and two rounds, the
\* last chunk first in the initial pass, and the track is stored.
C22_Witness ==
    /\ trk.op # "idle" /\ trk.pc = "done" /\ trk._multi = <<2>>
    /\ trk.n = 3 /\ trk.nTrackIterations = 2
    /\ trk.solves[1].chunk = 3 /\ trk.solves[4].chunk = 2
    /\ trk.stored # <<>>

\* C23: the impact track caches are written only in the single-threaded step
\* after every chunk of the initial pass and of every refinement round has
\* returned; if a chunk solve or the parallel dispatch raises, the failure
\* reaches the caller and none of the caches is set or partly filled.
C23_AllOrNothing ==
    trk.op # "idle" =>
        /\ trk.stored # <<>>
             => /\ trk.pc = "done" /\ trk.err = "none"
                /\ ~trk.dispatched /\ trk.pending = {}
                /\ Len(trk.solves) = trk.n * (trk.nTrackIterations + 1)
                /\ \A a \in DOMAIN trk.stored[1], i \in 1..trk.n :
                     trk.stored[1][a][i] # EmptyRow
        /\ trk.pc = "raised" => trk.stored = <<>> /\ trk.err # "none"
        /\ (trk.fail # <<>> /\ trk.pc \in {"store", "done"})
             => trk.fail[1] > trk.nTrackIterations \/ trk.fail[2] > trk.n

\* A worker raised in the second refinement round, after two complete passes:
\* the method has raised and no cache is on the object.
C23_Witness ==
    /\ trk.op # "idle" /\ trk.pc = "raised" /\ trk._multi # <<>>
    /\ trk.fail = <<2, 2>> /\ trk.n = 3 /\ trk.nn = 2
    /\ Len(trk.solves) = 8 /\ trk.stored = <<>>

(***************************************************************************)
(*   THE PIECEWISE POLYNOMIAL OF THE KICK AND THE GAUSSIAN INTEGRALS       *)
(*                                                                         *)
(* A knot is an integer, in half units of the angle grid.                  *)
(* PPoly.from_spline keeps every knot as a breakpoint and gives one column *)
(* of coefficients per pair of successive knots; a column is held as the   *)
(* number j of its pair (t[j], t[j+1]).                                    *)
(* An entry of the table of integrals is held by its coefficients on the   *)
(* terms it is a sum of: 0.5 (erf(ul) - erf(ll)) and, for p >= 0, the      *)
(* boundary term (exp(-ll^2) ll^p - exp(-ul^2) ul^p) / sqrt(pi).           *)
(***************************************************************************)
MaxSplineOrder == 3
MaxKnot == 5
MaxJ == 5

\* the strictly increasing sequences of at least two data angles
RECURSIVE Increasing(_)
Increasing(hi) ==
    IF hi < 0 THEN {<<>>}
    ELSE Increasing(hi - 1) \cup {Append(s, hi) : s \in Increasing(hi - 1)}

\* n copies of v
Repeat(v, n) == [i \in 1..n |-> v]

\* the knots of InterpolatedUnivariateSpline(..., k=spline_order) through the
\* data angles xs, in half units: k+1 knots at each end and m-k-1 inner knots,
\* data angles for an odd order and midpoints of them for an even order
InnerKnot(xs, k, l) ==
    LET j == (k \div 2) + 1 + l
    IN  IF k % 2 = 1 THEN 2 * xs[j] ELSE xs[j] + xs[j - 1]

SplineKnots(xs, k) ==
    Repeat(2 * xs[1], k + 1)
        \o [l \in 1..(Len(xs) - k - 1) |-> InnerKnot(xs, k, l)]
        \o Repeat(2 * xs[Len(xs)], k + 1)

\* interpolate.PPoly.from_spline: breakpoints x and the columns of c
from_spline(t) == [x |-> t, c |-> [j \in 1..(Len(t) - 1) |-> j]]

\* numpy.roll(x, s)[i], for the element i of x counted from 1
Roll(x, s, i) == x[((i - 1 - s) % Len(x)) + 1]

\* the test of nzIndx without the second half
nzMask_m(x, i) == Roll(x, 0 - 1, i) - x[i] > 0

\* the test of nzIndx for the element i of x counted from 1: the start of an
\* interval in the first half, the end of one in the second
nzMask(x, i) ==
    \/ Roll(x, 0 - 1, i) - x[i] > 0 /\ i - 1 < Len(x) \div 2
    \/ x[i] - Roll(x, 1, i) > 0 /\ i - 1 >= Len(x) \div 2

\* numpy.nonzero: the elements of 1..n that pass the test, in order
RECURSIVE Nonzero(_, _)
Nonzero(x, n) ==
    IF n = 0 THEN <<>>
    ELSE IF nzMask(x, n) THEN Append(Nonzero(x, n - 1), n) ELSE Nonzero(x, n - 1)

\* s[idx]
Pick(s, idx) == [j \in 1..Len(idx) |-> s[idx[j]]]

\* interpolate.PPoly(ppoly.c[:, nzIndx[0][:-1]], ppoly.x[nzIndx[0]])
_kick_interpdOpar_poly(t) ==
    LET ppoly == from_spline(t)
        nzIndx == Nonzero(ppoly.x, Len(ppoly.x))
    IN  [c |-> Pick(ppoly.c, SubSeq(nzIndx, 1, Len(nzIndx) - 1)),
         x |-> Pick(ppoly.x, nzIndx)]

InitPoly ==
    /\ den = Idle /\ dqry = Idle
    /\ CtorIdle /\ InterpIdle /\ KickIdle /\ QdfIdle

\* the last lines of _determine_deltaOmegaTheta_kick
TrimBreakpoints ==
    /\ dqry.op = "idle"
    /\ \E k \in 1..MaxSplineOrder, xs \in Increasing(MaxKnot) :
         /\ Len(xs) >= k + 1
         /\ dqry' = [op |-> "_determine_deltaOmegaTheta_kick", spline_order |-> k,
                     thetas |-> xs, t |-> SplineKnots(xs, k),
                     poly |-> _kick_interpdOpar_poly(SplineKnots(xs, k))]
    /\ UNCHANGED <<den, notDens>>

\* the coefficients are held in units of 1/Scale, so that every halving is exact
Scale == 2 ^ MaxJ

\* the term of index 0 is 0.5 (erf(ul) - erf(ll)); the term of index p + 1 is
\* (exp(-ll^2) ll^p - exp(-ul^2) ul^p) / sqrt(pi)
GaussTerms == 0..MaxJ
GaussZero == [b \in GaussTerms |-> 0]
ErfTerm == [b \in GaussTerms |-> IF b = 0 THEN Scale ELSE 0]
BoundaryTerm(p) == [b \in GaussTerms |-> IF b = p + 1 THEN Scale ELSE 0]
GaussAdd(u, v) == [b \in GaussTerms |-> u[b] + v[b]]
\* 0.5 * f * v
GaussHalf(f, v) == [b \in GaussTerms |-> (f * v[b]) \div 2]

\* gaussxpolyInt[-k], for the table g counted from 1
NegRow(g, k) == Len(g) - k + 1

\* the row read by a turn of the loop, one row off
RecursionRow_m(g, jj) == NegRow(g, jj + 2)

\* the row read by turn jj of the loop: gaussxpolyInt[-jj - 1]
RecursionRow(g, jj) == NegRow(g, jj + 1)

\* the row written by turn jj of the loop, from ll, ul and the row read
RecursionValue(g, jj) ==
    [i \in 1..Len(g[1]) |->
        GaussAdd(BoundaryTerm(jj + 2), GaussHalf(jj + 2, g[RecursionRow(g, jj)][i]))]

\* _densMoments_approx_higherorder_gaussxpolyInts is entered: numpy.zeros
GaussCall ==
    /\ dqry.op = "idle"
    /\ \E maxj \in 2..MaxJ, n \in 1..MaxIntervals :
         dqry' = [op |-> "_densMoments_approx_higherorder_gaussxpolyInts",
                  pc |-> "base", maxj |-> maxj, n |-> n, jj |-> 0,
                  gaussxpolyInt |-> [r \in 1..maxj |-> [i \in 1..n |-> GaussZero]],
                  fills |-> <<>>]
    /\ UNCHANGED <<den, notDens>>

InGauss(at) ==
    /\ dqry.op = "_densMoments_approx_higherorder_gaussxpolyInts"
    /\ dqry.pc = at

\* gaussxpolyInt[-1] = ... and gaussxpolyInt[-2] = ...
GaussBase ==
    /\ InGauss("base")
    /\ LET g == dqry.gaussxpolyInt
       IN  dqry' = [dqry EXCEPT
                      !.gaussxpolyInt[NegRow(g, 1)] =
                          [i \in 1..dqry.n |-> BoundaryTerm(0)],
                      !.gaussxpolyInt[NegRow(g, 2)] =
                          [i \in 1..dqry.n |-> GaussAdd(BoundaryTerm(1), ErfTerm)],
                      !.fills = <<NegRow(g, 1), NegRow(g, 2)>>,
                      !.pc = "loop"]
    /\ UNCHANGED <<den, notDens>>

\* one turn of 'for jj in range(maxj - 2)'
GaussStep ==
    /\ InGauss("loop") /\ dqry.jj < dqry.maxj - 2
    /\ LET g == dqry.gaussxpolyInt
       IN  dqry' = [dqry EXCEPT
                      !.gaussxpolyInt[NegRow(g, dqry.jj + 3)] =
                          RecursionValue(g, dqry.jj),
                      !.fills = Append(dqry.fills, NegRow(g, dqry.jj + 3)),
                      !.jj = dqry.jj + 1]
    /\ UNCHANGED <<den, notDens>>

\* return gaussxpolyInt
GaussReturn ==
    /\ InGauss("loop") /\ dqry.jj = dqry.maxj - 2
    /\ dqry' = [dqry EXCEPT !.pc = "returned"]
    /\ UNCHANGED <<den, notDens>>

\* the caller goes on
PolyReturn ==
    /\ \/ dqry.op = "_determine_deltaOmegaTheta_kick"
       \/ InGauss("returned")
    /\ dqry' = Idle
    /\ UNCHANGED <<den, notDens>>

NextPoly ==
    TrimBreakpoints \/ GaussCall \/ GaussBase \/ GaussStep \/ GaussReturn \/ PolyReturn

SpecPoly == InitPoly /\ [][NextPoly]_vars

(***************************************************************************)
(*      Claims about the piecewise polynomial and the integral table       *)
(***************************************************************************)
\* C24: for the knots of a spline, non-decreasing and repeated only at the
\* two ends, _kick_interpdOpar_poly has strictly increasing breakpoints, its
\* first and last breakpoints are the first and last knot, its coefficient
\* array has (number of breakpoints - 1) columns, and column j holds the
\* coefficients of the spline piece on [x_j, x_{j+1}].
C24_Trimmed ==
    dqry.op = "_determine_deltaOmegaTheta_kick" =>
        LET x == dqry.poly.x
            c == dqry.poly.c
            t == dqry.t
        IN  /\ \A j \in 1..(Len(x) - 1) : x[j] < x[j + 1]
            /\ Len(x) >= 2
            /\ x[1] = t[1] /\ x[Len(x)] = t[Len(t)]
            /\ Len(c) = Len(x) - 1
            /\ \A j \in 1..Len(c) : t[c[j]] = x[j] /\ t[c[j] + 1] = x[j + 1]

\* A cubic spline through six angles: four knots at each end and two inside
\* become four breakpoints and three columns.
C24_Witness ==
    /\ dqry.op = "_determine_deltaOmegaTheta_kick" /\ dqry.spline_order = 3
    /\ Len(dqry.t) = 10 /\ dqry.t[4] = dqry.t[1] /\ dqry.t[7] = dqry.t[10]
    /\ Len(dqry.poly.x) = 4 /\ dqry.poly.c = <<4, 5, 6>>

\* the row of the table that holds the integral of order m (1 is the lowest)
C26_Row(m) == dqry.maxj - m + 1

\* C26: for maxj >= 2 the table has shape (maxj, number of intervals); its
\* two lowest-order rows, stored last, are the closed-form base cases; every
\* higher row of order m is the boundary term in ll^(m-1), ul^(m-1) plus
\* (m-1)/2 times the row of order m-2; every row is filled exactly once, and
\* only after the row it depends on.
C26_Table ==
    dqry.op = "_densMoments_approx_higherorder_gaussxpolyInts" =>
        LET g == dqry.gaussxpolyInt
        IN  /\ Len(g) = dqry.maxj /\ \A r \in 1..Len(g) : Len(g[r]) = dqry.n
            /\ dqry.pc # "base" =>
                 \A i \in 1..dqry.n :
                    /\ g[C26_Row(1)][i] = BoundaryTerm(0)
                    /\ g[C26_Row(2)][i] = GaussAdd(BoundaryTerm(1), ErfTerm)
            /\ dqry.pc = "returned" =>
                 /\ \A m \in 3..dqry.maxj, i \in 1..dqry.n, b \in GaussTerms :
                      2 * (g[C26_Row(m)][i][b] - BoundaryTerm(m - 1)[b])
                        = (m - 1) * g[C26_Row(m - 2)][i][b]
                 /\ Len(dqry.fills) = dqry.maxj
            /\ \A k \in 1..Len(dqry.fills) :
                 /\ \A j \in 1..(k - 1) : dqry.fills[j] # dqry.fills[k]
                 /\ dqry.fills[k] < C26_Row(2) =>
                      \E j \in 1..(k - 1) : dqry.fills[j] = dqry.fills[k] + 2

\* The table of five orders is returned: its top row is the boundary term in
\* the fourth power plus twice the one in the second plus twice the one in
\* the zeroth.
C26_Witness ==
    /\ InGauss("returned") /\ dqry.maxj = 5 /\ dqry.n = 2
    /\ dqry.fills = <<5, 4, 3, 2, 1>>
    /\ dqry.gaussxpolyInt[1][2] =
         [b \in GaussTerms |-> IF b \in {1, 3, 5} THEN (IF b = 5 THEN 1 ELSE 2) * Scale ELSE 0]

(***************************************************************************)
(*   THE BORROWED TRACK NAMES OF  _determine_deltaOmegaTheta_kick          *)
(*                                                                         *)
(* An attribute holds "absent" (the object has no such attribute), the     *)
(* name of the impact-time attribute its data belongs to, or "present-day" *)
(* (the track of a stream set up at the present time).  Invocations on the *)
(* same object take their statements one at a time, in any interleaving.   *)
(***************************************************************************)
\* lines 704-711: the names borrowed and, for each, the attribute assigned to it
AliasNames ==
    <<"_interpolatedObsTrack", "_ObsTrack", "_interpolatedObsTrackXY", "_ObsTrackXY",
      "_alljacsTrack", "_interpolatedObsTrackAA", "_ObsTrackAA", "_nTrackChunks">>
AliasSources ==
    <<"_kick_interpolatedObsTrack", "_gap_ObsTrack", "_kick_interpolatedObsTrackXY",
      "_gap_ObsTrackXY", "_gap_alljacsTrack", "_kick_interpolatedObsTrackAA",
      "_gap_ObsTrackAA", "_nTrackChunksImpact">>

Invocations == 1..2

\* the attributes an invocation finds missing, with every attribute found
Missing_m(a, names) == {}

\* the attributes of names that the object does not have
Missing(a, names) == {n \in names : a[n] = "absent"}

\* delattr(self, name) leaving the attribute on the object
delattr_m(a, name) == a

\* delattr(self, name)
delattr(a, name) == [a EXCEPT ![name] = "absent"]

\* an invocation that has not been made, and one that has left with err
NotCalled == [pc |-> "idle", k |-> 0, err |-> "none"]
AliasRaised(exception) == [pc |-> "raised", k |-> 0, err |-> exception]

\* the invocations that are inside the method
Active == {t \in Invocations : ali.inv[t].pc \in {"assign", "_approxaA", "delattr"}}

InitAlias ==
    /\ \E hasTrack \in BOOLEAN, fails \in SUBSET Invocations :
         ali = [op |-> "object",
                attrs |-> [n \in Range(AliasNames) \cup Range(AliasSources) |->
                             IF n \in Range(AliasSources) THEN n
                             ELSE IF hasTrack THEN "present-day" ELSE "absent"],
                inv |-> [t \in Invocations |-> NotCalled],
                fails |-> fails, overlap |-> FALSE]
    /\ trk = Idle
    /\ CtorIdle /\ InterpIdle /\ KickIdle /\ DensIdle /\ qdf = Idle

\* _determine_deltaOmegaTheta_kick is called: lines 686-698
AliasCall ==
    /\ ali.op = "object"
    /\ \E t \in Invocations :
         /\ ali.inv[t].pc = "idle"
         /\ ali' = [ali EXCEPT !.inv[t] = [pc |-> "assign", k |-> 1, err |-> "none"],
                               !.overlap = ali.overlap \/ Active # {}]
    /\ UNCHANGED notAli

\* one of the assignments of lines 704-711
AliasAssign ==
    /\ ali.op = "object"
    /\ \E t \in Invocations :
         /\ ali.inv[t].pc = "assign"
         /\ LET k == ali.inv[t].k
            IN  ali' = IF Missing(ali.attrs, {AliasSources[k]}) # {}
                       THEN [ali EXCEPT !.inv[t] = AliasRaised("AttributeError")]
                       ELSE [ali EXCEPT
                               !.attrs[AliasNames[k]] = ali.attrs[AliasSources[k]],
                               !.inv[t] = IF k < Len(AliasNames)
                                          THEN [pc |-> "assign", k |-> k + 1, err |-> "none"]
                                          ELSE [pc |-> "_approxaA", k |-> 0, err |-> "none"]]
    /\ UNCHANGED notAli

\* lines 712-721: self._approxaA reads the track under the borrowed names
ApproxaA ==
    /\ ali.op = "object"
    /\ \E t \in Invocations :
         /\ ali.inv[t].pc = "_approxaA"
         /\ ali' = IF Missing(ali.attrs, Range(AliasNames)) # {}
                   THEN [ali EXCEPT !.inv[t] = AliasRaised("AttributeError")]
                   ELSE IF t \in ali.fails
                   THEN [ali EXCEPT !.inv[t] = AliasRaised("Exception")]
                   ELSE [ali EXCEPT !.inv[t] = [pc |-> "delattr", k |-> 1, err |-> "none"]]
    /\ UNCHANGED notAli

\* one of the delattr of lines 723-730; after the last, lines 731-786 and return
AliasDelete ==
    /\ ali.op = "object"
    /\ \E t \in Invocations :
         /\ ali.inv[t].pc = "delattr"
         /\ LET k == ali.inv[t].k
            IN  ali' = IF Missing(ali.attrs, {AliasNames[k]}) # {}
                       THEN [ali EXCEPT !.inv[t] = AliasRaised("AttributeError")]
                       ELSE [ali EXCEPT
                               !.attrs = delattr(ali.attrs, AliasNames[k]),
                               !.inv[t] = IF k < Len(AliasNames)
                                          THEN [pc |-> "delattr", k |-> k + 1, err |-> "none"]
                                          ELSE [pc |-> "returned", k |-> 0, err |-> "none"]]
    /\ UNCHANGED notAli

NextAlias == AliasCall \/ AliasAssign \/ ApproxaA \/ AliasDelete

SpecAlias == InitAlias /\ [][NextAlias]_vars

(***************************************************************************)
(*                  Claims about the borrowed names                        *)
(***************************************************************************)
\* C28: during the call of the shared coordinate-transform routine the eight
\* present-day-track names hold the impact-time track data, and whenever the
\* method returns normally all eight names have been deleted from the
\* object; the _gap_* and _kick_* originals are left unchanged.  (Of
\* invocations that do not overlap another.)
C28_Aliasing ==
    [][/\ \A t \in Invocations :
            ~ali'.overlap =>
               /\ ali'.inv[t].pc = "_approxaA"
                    => \A k \in 1..Len(AliasNames) :
                          ali'.attrs[AliasNames[k]] = AliasSources[k]
               /\ (ali.inv[t].pc # "returned" /\ ali'.inv[t].pc = "returned")
                    => \A k \in 1..Len(AliasNames) :
                          ali'.attrs[AliasNames[k]] = "absent"
       /\ \A n \in Range(AliasSources) : ali'.attrs[n] = ali.attrs[n]
      ]_<<ali>>

\* An object that had a present-day track under the eight names: the method
\* has returned and none of the names is left.
C28_Witness ==
    /\ ali.op = "object" /\ ~ali.overlap
    /\ ali.inv[1].pc = "returned" /\ ali.inv[2].pc = "idle"
    /\ \A k \in 1..Len(AliasNames) : ali.attrs[AliasNames[k]] = "absent"
    /\ \A n \in Range(AliasSources) : ali.attrs[n] = n

\* the names an invocation is about to read or delete
C29_Needs(t) ==
    IF ali.inv[t].pc = "_approxaA" THEN Range(AliasNames)
    ELSE IF ali.inv[t].pc = "delattr" THEN {AliasNames[ali.inv[t].k]}
    ELSE {}

\* C29: the aliasing is not safe under concurrent or nested calls: when two
\* invocations on the same object interleave, a state is reachable in which
\* one has deleted the alias attributes while the other is still between its
\* alias assignment and its own delete, and the second then reads a missing
\* attribute or fails on deleting an already-deleted one.
C29_Unsafe ==
    [][\A t \in Invocations :
          (/\ ali.inv[t].pc \in {"_approxaA", "delattr"}
           /\ ali'.inv[t] # ali.inv[t]
           /\ \E n \in C29_Needs(t) : ali.attrs[n] = "absent")
             => ali'.inv[t] = AliasRaised("AttributeError")
      ]_<<ali>>

\* One invocation has deleted the eight names and returned; the other, which
\* had assigned them too and was inside the transform, has raised
\* AttributeError.
C29_Witness ==
    /\ ali.op = "object" /\ ali.overlap /\ ali.fails = {}
    /\ ali.inv[1].pc = "returned"
    /\ ali.inv[2] = AliasRaised("AttributeError")
    /\ \A k \in 1..Len(AliasNames) : ali.attrs[AliasNames[k]] = "absent"

=============================================================================
